---- MODULE Spec2Model ----
(***************************************************************************)
(* Session discovery, line parsing, message normalization and session      *)
(* loading of @effect/claude-session (src/src/Session.ts), the --since     *)
(* filter and the hook command of its command line (src/src/bin/cli.ts),   *)
(* its formatter (src/src/Formatter.ts) and its GistService                *)
(* (src/unnamed/part_004, Gist.ts), as a state machine.                    *)
(*                                                                         *)
(* The specifications share the variables:                                 *)
(*   SpecLine      one line of text through parseJsonlLine and             *)
(*                 normalizeMessage;                                       *)
(*   SpecLoad      one session file with arbitrary content, discovered and *)
(*                 loaded while another process appends to it;             *)
(*   SpecDiscover  a projects directory with several project directories   *)
(*                 and files, discovered;                                  *)
(*   SpecSelect    loadMostRecent and loadByProject over two session       *)
(*                 files;                                                  *)
(*   SpecExport    a loaded session through the --since filter and the     *)
(*                 formatter;                                              *)
(*   SpecGist      create, update and getAuthMethod of a GistService made  *)
(*                 from a configuration, against gh and the GitHub API;    *)
(*   SpecHook      the hook command over a session file and a GistService. *)
(***************************************************************************)
EXTENDS Integers, Sequences, FiniteSets

VARIABLES
    line,        \* SpecLine: the text line handed to parseJsonlLine
    parsed,      \* SpecLine: Idle, or the outcome of parseJsonlLine(line)
    normalized,  \* SpecLine: Idle, or the outcome of normalizeMessage
    fs,          \* the file system below claudeDir/projects
    config,      \* SessionConfigOptions.projectFilter
    discovered,  \* Idle, or the outcome of discover with the calls it made
    loaded,      \* Idle, or the outcome of load with the calls it made
    request,     \* SpecExport: the session and the options of an export
    session,     \* SpecExport: Idle, or the session after the --since filter
    formatted,   \* SpecExport: Idle, or the outcome of formatter.format
    gist,        \* SpecGist: the configuration, the environment and the
                 \* outcome of an operation of the GistService
    hook         \* SpecHook: Idle, or what the hook command printed

vars ==
    <<line, parsed, normalized, fs, config, discovered, loaded, request,
      session, formatted, gist, hook>>

----------------------------------------------------------------------------
(* Bounds of the model.                                                    *)

\* longest block sequence of a message content, all sequences up to it
\* being tried
MaxBlocks == 2

\* longest file content, in atoms, all contents up to it being tried
MaxContent == 3

\* latest modification time
MaxTime == 2

----------------------------------------------------------------------------
(* Values.  Every value is a record with a tag t, so that any two values   *)
(* can be compared.                                                        *)

\* JavaScript undefined: a missing key, an absent optional field
Undefined == [t |-> "undefined"]

\* a variable that holds no outcome yet
Idle == [t |-> "idle"]

\* Option.none() and Option.some(v)
None == [t |-> "none"]

Some(v) == [t |-> "some", value |-> v]

\* the success and the failure of an Effect
Ok(v) == [t |-> "ok", value |-> v]

Fail(r) == [t |-> "fail", reason |-> r]

\* JSON values, as JSON.parse returns them
JNull == [t |-> "null"]

JNum == [t |-> "num"]

JStr(s) == [t |-> "str", s |-> s]

JArr(items) == [t |-> "arr", items |-> items]

\* an object: f maps the keys that are present to their values
JObj(f) == [t |-> "obj", f |-> f]

Has(v, k) == v.t = "obj" /\ k \in DOMAIN v.f

\* v[k] of JavaScript: undefined when the key is missing
Get(v, k) == IF Has(v, k) THEN v.f[k] ELSE Undefined

\* the object v with key k set to x; x = Undefined leaves the key out
Put(v, k, x) ==
    IF x = Undefined THEN v
    ELSE JObj([y \in DOMAIN v.f \cup {k} |-> IF y = k THEN x ELSE v.f[y]])

IsStr(v) == v.t = "str"

----------------------------------------------------------------------------
(* Text.  A file content is a sequence of atoms: a line break, a run of    *)
(* white space, a run of characters that are not JSON, or the text of one  *)
(* JSON value.  A line is a sequence of atoms without a line break.        *)

NL == [t |-> "nl"]

SP == [t |-> "ws"]

TXT == [t |-> "txt"]

J(v) == [t |-> "json", v |-> v]

\* String.prototype.trim: white space removed at both ends
RECURSIVE TrimLeft(_)
TrimLeft(s) ==
    IF s # <<>> /\ Head(s) = SP THEN TrimLeft(Tail(s)) ELSE s

RECURSIVE TrimRight(_)
TrimRight(s) ==
    IF s # <<>> /\ s[Len(s)] = SP THEN TrimRight(SubSeq(s, 1, Len(s) - 1)) ELSE s

Trim(s) == TrimRight(TrimLeft(s))

\* JSON.parse: the text of exactly one JSON value, white space allowed
\* around it; anything else throws
JsonParse(l) ==
    LET core == Trim(l)
    IN  IF Len(core) = 1 /\ core[1].t = "json" THEN Ok(core[1].v)
        ELSE Fail("SyntaxError")

----------------------------------------------------------------------------
(* The schemas: Schema.decodeUnknown accepts a value of the schema's shape *)
(* and keeps the schema's keys only.                                       *)

\* an optional string property: missing, or a string
OptStrOk(v, k) == Has(v, k) => IsStr(v.f[k])

\* ContentBlock: one of three structs told apart by the literal type
BlockOk(v) ==
    /\ v.t = "obj"
    /\ Has(v, "type")
    /\ \/ /\ v.f["type"] = JStr("text")
          /\ Has(v, "text") /\ IsStr(v.f["text"])
       \/ /\ v.f["type"] = JStr("tool_use")
          /\ OptStrOk(v, "id")
          /\ Has(v, "name") /\ IsStr(v.f["name"])
          /\ Has(v, "input")
       \/ /\ v.f["type"] = JStr("tool_result")
          /\ OptStrOk(v, "tool_use_id")
          /\ Has(v, "content")

DecodeBlock(v) ==
    CASE v.f["type"] = JStr("text") ->
            [type |-> "text", text |-> v.f["text"].s]
      [] v.f["type"] = JStr("tool_use") ->
            [type |-> "tool_use", id |-> Get(v, "id"),
             name |-> v.f["name"].s, input |-> v.f["input"]]
      [] OTHER ->
            [type |-> "tool_result", tool_use_id |-> Get(v, "tool_use_id"),
             content |-> v.f["content"]]

\* MessageContent: a string, or an array of ContentBlock
ContentOk(v) ==
    \/ IsStr(v)
    \/ v.t = "arr" /\ \A i \in DOMAIN v.items : BlockOk(v.items[i])

DecodeContent(v) ==
    IF IsStr(v) THEN v
    ELSE JArr([i \in DOMAIN v.items |-> DecodeBlock(v.items[i])])

\* the struct of the optional message property
WrapperOk(v) ==
    /\ v.t = "obj"
    /\ OptStrOk(v, "role")
    /\ Has(v, "content") /\ ContentOk(v.f["content"])

\* a faulty variant of SessionMessageOk: keys the schema does not know are an error
SessionMessageOk_strict(v) ==
    /\ v.t = "obj"
    /\ DOMAIN v.f \subseteq {"type", "message", "content", "timestamp"}
    /\ Has(v, "type")
    /\ v.f["type"] \in {JStr("user"), JStr("human"), JStr("assistant")}
    /\ Has(v, "message") => WrapperOk(v.f["message"])
    /\ Has(v, "content") => ContentOk(v.f["content"])
    /\ OptStrOk(v, "timestamp")

\* SessionMessage
SessionMessageOk(v) ==
    /\ v.t = "obj"
    /\ Has(v, "type")
    /\ v.f["type"] \in {JStr("user"), JStr("human"), JStr("assistant")}
    /\ Has(v, "message") => WrapperOk(v.f["message"])
    /\ Has(v, "content") => ContentOk(v.f["content"])
    /\ OptStrOk(v, "timestamp")

DecodeSessionMessage(v) ==
    [type |-> v.f["type"].s,
     message |-> IF Has(v, "message")
                 THEN [t |-> "wrapper",
                       role |-> Get(v.f["message"], "role"),
                       content |-> DecodeContent(v.f["message"].f["content"])]
                 ELSE Undefined,
     content |-> IF Has(v, "content") THEN DecodeContent(v.f["content"])
                 ELSE Undefined,
     timestamp |-> Get(v, "timestamp")]

\* the blocks of a content that are of a kind the schema knows
KnownBlocks(c) ==
    IF c.t # "arr" THEN c
    ELSE JArr(SelectSeq(c.items,
                LAMBDA b : ~(b.t = "obj" /\ Has(b, "type")
                             /\ b.f["type"] \notin
                                   {JStr("text"), JStr("tool_use"),
                                    JStr("tool_result")})))

\* a faulty variant of parseJsonlLine: the blocks of an unknown kind are
\* left out and the others kept
parseJsonlLine_keepKnownBlocks(l) ==
    LET json == JsonParse(l)
        v == json.value
        direct == IF Has(v, "content")
                  THEN Put(v, "content", KnownBlocks(v.f["content"]))
                  ELSE v
        kept == IF Has(v, "message") /\ Has(v.f["message"], "content")
                THEN Put(direct, "message",
                         Put(v.f["message"], "content",
                             KnownBlocks(v.f["message"].f["content"])))
                ELSE direct
    IN  IF json.t = "fail" THEN Fail("ParseError")
        ELSE IF v.t # "obj" \/ ~SessionMessageOk(kept)
        THEN Fail("InvalidFormat")
        ELSE Ok(DecodeSessionMessage(kept))

\* parseJsonlLine: JSON.parse, then the schema
parseJsonlLine(l) ==
    LET json == JsonParse(l)
    IN  IF json.t = "fail" THEN Fail("ParseError")
        ELSE IF ~SessionMessageOk(json.value) THEN Fail("InvalidFormat")
        ELSE Ok(DecodeSessionMessage(json.value))

----------------------------------------------------------------------------
(* Message Normalizer.                                                     *)

\* Array.prototype.join("\n")
RECURSIVE JoinNewline(_)
JoinNewline(strs) ==
    IF strs = <<>> THEN ""
    ELSE IF Len(strs) = 1 THEN strs[1]
    ELSE JoinNewline(SubSeq(strs, 1, Len(strs) - 1)) \o "\n" \o strs[Len(strs)]

IsText(block) == block.type = "text"

IsToolUse(block) == block.type = "tool_use"

IsToolResult(block) == block.type = "tool_result"

\* .map(block => block.text)
Texts(blocks) == [i \in DOMAIN blocks |-> blocks[i].text]

\* .map(block => ({ name: block.name, input: block.input }))
ToolUses(blocks) ==
    [i \in DOMAIN blocks |->
        [name |-> blocks[i].name, input |-> blocks[i].input]]

\* .map(block => ({ content: block.content }))
ToolResults(blocks) == [i \in DOMAIN blocks |-> [content |-> blocks[i].content]]

\* a faulty variant of extractTextContent: the text blocks joined without separator
RECURSIVE JoinNothing(_)
JoinNothing(strs) ==
    IF strs = <<>> THEN "" ELSE Head(strs) \o JoinNothing(Tail(strs))

extractTextContent_noSeparator(content) ==
    IF IsStr(content) THEN content.s
    ELSE JoinNothing(Texts(SelectSeq(content.items, IsText)))

extractTextContent(content) ==
    IF IsStr(content) THEN content.s
    ELSE JoinNewline(Texts(SelectSeq(content.items, IsText)))

extractToolUses(content) ==
    IF IsStr(content) THEN <<>>
    ELSE ToolUses(SelectSeq(content.items, IsToolUse))

extractToolResults(content) ==
    IF IsStr(content) THEN <<>>
    ELSE ToolResults(SelectSeq(content.items, IsToolResult))

\* a faulty variant of selectContent: || in place of ??, so that an empty wrapped
\* string falls through to the direct content
selectContent_falsy(raw) ==
    LET wrapped == IF raw.message = Undefined THEN Undefined
                   ELSE raw.message.content
    IN  IF wrapped = Undefined \/ wrapped = JStr("") THEN raw.content
        ELSE wrapped

\* raw.message?.content ?? raw.content
selectContent(raw) ==
    LET wrapped == IF raw.message = Undefined THEN Undefined
                   ELSE raw.message.content
    IN  IF wrapped = Undefined THEN raw.content ELSE wrapped

\* a faulty variant of collapseRole: the wrapped role string, when it names a role
collapseRole_wrapped(raw) ==
    IF raw.message # Undefined /\ raw.message.role # Undefined
    THEN raw.message.role.s
    ELSE IF raw.type = "assistant" THEN "assistant" ELSE "user"

\* raw.type === "assistant" ? "assistant" : "user"
collapseRole(raw) ==
    IF raw.type = "assistant" THEN "assistant" ELSE "user"

\* the date strings the model knows to be instants, with their time value
IsoInstants == {"2024-01-01T00:00:00.000Z", "2024-01-02T00:00:00.000Z"}

IsoTime(s) == IF s = "2024-01-01T00:00:00.000Z" THEN 1 ELSE 2

\* new Date(string): never throws; a string that does not parse gives the
\* Invalid Date, whose time value is NaN
NewDate(s) ==
    IF s \in IsoInstants THEN [valid |-> TRUE, time |-> IsoTime(s)]
    ELSE [valid |-> FALSE, time |-> 0]

\* raw.timestamp ? Option.some(new Date(raw.timestamp)) : Option.none()
\* (the empty string is falsy)
parseTimestamp(raw) ==
    IF raw.timestamp # Undefined /\ raw.timestamp.s # ""
    THEN Some(NewDate(raw.timestamp.s))
    ELSE None

\* a faulty variant of normalizeMessage: a record without content gives a message
\* with empty fields
normalizeMessage_emptyMessage(raw) ==
    LET content == selectContent(raw)
    IN  Some([role |-> collapseRole(raw),
              content |-> IF content = Undefined THEN ""
                          ELSE extractTextContent(content),
              toolUses |-> IF content = Undefined THEN <<>>
                           ELSE extractToolUses(content),
              toolResults |-> IF content = Undefined THEN <<>>
                              ELSE extractToolResults(content),
              timestamp |-> parseTimestamp(raw)])

normalizeMessage(raw) ==
    LET content == selectContent(raw)
    IN  IF content = Undefined THEN None
        ELSE Some([role |-> collapseRole(raw),
                   content |-> extractTextContent(content),
                   toolUses |-> extractToolUses(content),
                   toolResults |-> extractToolResults(content),
                   timestamp |-> parseTimestamp(raw)])

----------------------------------------------------------------------------
(* The lines of SpecLine.                                                  *)

\* all sequences of at most n elements of S
SeqsUpTo(S, n) == UNION {[1..k -> S] : k \in 0..n}

JText(s) == JObj([type |-> JStr("text"), text |-> JStr(s)])

JToolUse(name, cmd) ==
    JObj([type |-> JStr("tool_use"), name |-> JStr(name),
          input |-> JObj([command |-> JStr(cmd)])])

JToolResult(out) ==
    JObj([type |-> JStr("tool_result"), tool_use_id |-> JStr("toolu_1"),
          content |-> JStr(out)])

\* blocks of the three kinds, two of each so that their order shows
ValidBlocks ==
    {JText("a"), JText("b"), JToolUse("Bash", "ls"),
     Put(JToolUse("Read", "pwd"), "id", JStr("toolu_1")),
     JToolResult("ok"), JToolResult("err")}

\* longer block sequences, the kinds interleaved
LongContents ==
    {JArr(<<JText("a"), JToolUse("Bash", "ls"), JText("b")>>),
     JArr(<<JToolResult("ok"), JText("b"), JToolResult("err"), JText("a")>>),
     JArr(<<JToolUse("Read", "pwd"), JToolResult("ok"), JToolUse("Bash", "ls"),
            JText("a")>>)}

ValidContents ==
    {JStr(""), JStr("hi"), JStr("a\nb")}
        \cup {JArr(bs) : bs \in SeqsUpTo(ValidBlocks, MaxBlocks)}
        \cup LongContents

\* the direct contents tried beside a wrapped content
DirectContents ==
    {JStr("direct"), JArr(<<JText("d"), JToolUse("Grep", "x")>>)}

Kinds == {"user", "human", "assistant"}

Timestamps ==
    {Undefined, JStr(""), JStr("2024-01-01T00:00:00.000Z"), JStr("not-a-date")}

Wrapper(role, content) == Put(JObj([content |-> content]), "role", role)

Record(kind, message, content, timestamp) ==
    Put(Put(Put(JObj([type |-> JStr(kind)]), "message", message),
            "content", content), "timestamp", timestamp)

\* the JSON values of the SessionMessage shape
ValidRecords ==
    {Record(k, Undefined, c, ts) :
        k \in Kinds, c \in ValidContents \cup {Undefined}, ts \in Timestamps}
    \cup
    {Record(k, Wrapper(r, w), c, ts) :
        k \in Kinds, r \in {Undefined, JStr("assistant")}, w \in ValidContents,
        c \in DirectContents \cup {Undefined}, ts \in Timestamps}

\* values of the right shape with keys the schemas do not know, at the top,
\* in the wrapper and in a block
ExtraRecords ==
    {Put(v, "uuid", JStr("u-1")) :
        v \in {Record(k, Undefined, JStr("hi"), Undefined) : k \in Kinds}}
    \cup
    {Record("user", Put(Wrapper(Undefined, c), "model", JStr("m")), Undefined,
            Undefined) :
        c \in {JStr("hi"), JArr(<<Put(JText("a"), "cache", JNull)>>)}}
    \cup
    {Put(Record("assistant", Undefined, JArr(<<JToolUse("Bash", "ls")>>),
                JStr("not-a-date")), "parentUuid", JNull)}

\* values that are JSON and not of the shape
BadBlocks ==
    {JObj([type |-> JStr("image")]), JObj([type |-> JStr("text")]),
     JObj([type |-> JStr("text"), text |-> JNum]),
     JObj([type |-> JStr("tool_use"), input |-> JNull]),
     JObj([text |-> JStr("a")]), JStr("a"), JNull}

BadContents ==
    {JNum, JNull, JObj([text |-> JStr("hi")])}
        \cup {JArr(<<JText("a"), b>>) : b \in BadBlocks}
        \cup {JArr(<<b, JToolUse("Bash", "ls")>>) : b \in BadBlocks}

BadRecords ==
    {JNum, JNull, JStr("user"), JArr(<<>>), JArr(<<JStr("user")>>),
     JObj(<<>>), JObj([content |-> JStr("hi")])}
    \cup
    {Record(k, Undefined, JStr("hi"), Undefined) :
        k \in {"system", "summary", "User", ""}}
    \cup
    {Put(JObj([content |-> JStr("hi")]), "type", x) :
        x \in {JNum, JNull, JArr(<<JStr("user")>>)}}
    \cup
    {Record(k, Undefined, c, Undefined) : k \in Kinds, c \in BadContents}
    \cup
    {Record(k, Wrapper(Undefined, c), JStr("hi"), Undefined) :
        k \in Kinds, c \in BadContents}
    \cup
    {Put(Record("user", Undefined, JStr("hi"), Undefined), "message", m) :
        m \in {JNull, JStr("hi"), JObj(<<>>), JObj([role |-> JStr("user")]),
               JObj([role |-> JNum, content |-> JStr("hi")])}}
    \cup
    {Put(Record("user", Undefined, JStr("hi"), Undefined), "timestamp", x) :
        x \in {JNum, JNull}}

\* the lines: text that is no JSON, and the text of each value, bare or
\* with white space around it
Lines ==
    {<<TXT>>, <<TXT, SP, TXT>>, <<SP, TXT>>}
    \cup {<<J(v)>> : v \in ValidRecords \cup ExtraRecords \cup BadRecords}
    \cup {<<SP, J(v), SP>> : v \in ExtraRecords}
    \cup {<<J(v), J(v)>> : v \in ExtraRecords}
    \cup {<<J(v), TXT>> : v \in ExtraRecords}

\* the file system of SpecLine: none
NoFs == [root |-> "absent", projects |-> <<>>]

InitLine ==
    /\ line \in Lines
    /\ parsed = Idle
    /\ normalized = Idle
    /\ fs = NoFs
    /\ config = None
    /\ discovered = Idle
    /\ loaded = Idle
    /\ request = Idle
    /\ session = Idle
    /\ formatted = Idle
    /\ gist = Idle
    /\ hook = Idle

\* the Record Parser applied to the line
Parse ==
    /\ parsed = Idle
    /\ parsed' = parseJsonlLine(line)
    /\ UNCHANGED <<line, normalized, fs, config, discovered, loaded,
                 request, session, formatted, gist, hook>>

\* the Message Normalizer applied to the raw record
Normalize ==
    /\ parsed.t = "ok"
    /\ normalized = Idle
    /\ normalized' = normalizeMessage(parsed.value)
    /\ UNCHANGED <<line, parsed, fs, config, discovered, loaded,
                 request, session, formatted, gist, hook>>

NextLine == Parse \/ Normalize

SpecLine == InitLine /\ [][NextLine]_vars

----------------------------------------------------------------------------
(* Properties of the Record Parser and the Message Normalizer, checked     *)
(* under SpecLine.                                                         *)

\* the content the wrapper carries, else the direct one
WrappedElseDirect(raw) ==
    IF raw.message # Undefined THEN raw.message.content ELSE raw.content

\* C3: a normalized message has role assistant when the raw kind is
\* assistant and role user when it is user or human; there is no other
\* role, and the wrapped role string changes nothing.
C3_RoleCollapse ==
    normalized.t = "some" =>
        LET raw == parsed.value
            role == normalized.value.role
        IN  /\ role \in {"user", "assistant"}
            /\ raw.type = "assistant" => role = "assistant"
            /\ raw.type \in {"user", "human"} => role = "user"
            /\ raw.message # Undefined =>
                 \A r \in {Undefined, JStr("user"), JStr("assistant"),
                           JStr("system")} :
                    normalizeMessage([raw EXCEPT !.message.role = r])
                        = normalized

\* a human record that wraps the role assistant is normalized to user
C3_Witness ==
    /\ normalized.t = "some"
    /\ parsed.value.type = "human"
    /\ parsed.value.message # Undefined
    /\ parsed.value.message.role = JStr("assistant")
    /\ normalized.value.role = "user"

\* C4: with a wrapped and a direct content, text, toolUses and toolResults
\* come from the wrapped content alone, also when it is the empty string or
\* the empty block sequence; the direct content counts only without wrapper.
C4_WrappedContentWins ==
    normalized # Idle =>
        LET raw == parsed.value
            from == IF raw.message # Undefined THEN raw.message.content
                    ELSE raw.content
        IN  (raw.message # Undefined \/ raw.content # Undefined) =>
                /\ normalized.t = "some"
                /\ normalized.value.content = extractTextContent(from)
                /\ normalized.value.toolUses = extractToolUses(from)
                /\ normalized.value.toolResults = extractToolResults(from)

\* an empty wrapped string beside a direct content: the text is empty
C4_Witness ==
    /\ normalized.t = "some"
    /\ parsed.value.message # Undefined
    /\ parsed.value.message.content = JStr("")
    /\ parsed.value.content = JStr("direct")
    /\ normalized.value.content = ""

\* C5: a record with neither a wrapped nor a direct content normalizes to
\* none: not to a message, and so not to one with empty fields.
C5_NoContentIsNone ==
    (normalized # Idle /\ parsed.value.message = Undefined
        /\ parsed.value.content = Undefined) => normalized = None

\* a record without content has been normalized
C5_Witness ==
    /\ normalized = None
    /\ parsed.value.message = Undefined
    /\ parsed.value.content = Undefined

\* the positions of the blocks of a kind, ascending
Positions(items, kind) ==
    LET S == {i \in DOMAIN items : items[i].type = kind}
    IN  [j \in 1..Cardinality(S) |->
            CHOOSE i \in S : Cardinality({k \in S : k < i}) = j - 1]

\* the texts at the positions ps, each but the last followed by a newline
RECURSIVE TextsAt(_, _)
TextsAt(items, ps) ==
    IF ps = <<>> THEN ""
    ELSE IF Len(ps) = 1 THEN items[ps[1]].text
    ELSE items[ps[1]].text \o "\n" \o TextsAt(items, Tail(ps))

\* C6: a block sequence is partitioned by kind in its order: content is the
\* texts of the text blocks joined by one newline, toolUses the tool_use
\* blocks as {name, input}, toolResults the tool_result blocks as {content},
\* and the three counts add up to the number of blocks; a plain string is
\* the text verbatim, with no tool use and no tool result.
C6_BlockPartition ==
    normalized.t = "some" =>
        LET c == WrappedElseDirect(parsed.value)
            m == normalized.value
        IN  IF IsStr(c)
            THEN m.content = c.s /\ m.toolUses = <<>> /\ m.toolResults = <<>>
            ELSE LET texts == Positions(c.items, "text")
                     uses == Positions(c.items, "tool_use")
                     results == Positions(c.items, "tool_result")
                 IN  /\ m.content = TextsAt(c.items, texts)
                     /\ Len(m.toolUses) = Len(uses)
                     /\ \A j \in DOMAIN uses :
                            m.toolUses[j] = [name |-> c.items[uses[j]].name,
                                             input |-> c.items[uses[j]].input]
                     /\ Len(m.toolResults) = Len(results)
                     /\ \A j \in DOMAIN results :
                            m.toolResults[j] =
                                [content |-> c.items[results[j]].content]
                     /\ Len(texts) + Len(m.toolUses) + Len(m.toolResults)
                            = Len(c.items)

\* text, tool use, text: the text is "a\nb" and there is one tool use
C6_Witness ==
    /\ normalized.t = "some"
    /\ WrappedElseDirect(parsed.value).t = "arr"
    /\ Len(WrappedElseDirect(parsed.value).items) = 3
    /\ normalized.value.content = "a\nb"
    /\ Len(normalized.value.toolUses) = 1

\* C7: a timestamp string that does not parse gives an absent timestamp, as
\* a missing one does; a present timestamp is always a valid instant.
C7_TimestampDegrades ==
    normalized.t = "some" =>
        /\ normalized.value.timestamp # None =>
               normalized.value.timestamp.value.valid
        /\ (parsed.value.timestamp = Undefined
               \/ parsed.value.timestamp.s \notin IsoInstants) =>
               normalized.value.timestamp = None

\* the keys a schema keeps
Restrict(v, ks) ==
    IF v.t = "obj" THEN JObj([k \in DOMAIN v.f \cap ks |-> v.f[k]]) ELSE v

StripBlock(b) ==
    CASE Get(b, "type") = JStr("text") -> Restrict(b, {"type", "text"})
      [] Get(b, "type") = JStr("tool_use") ->
            Restrict(b, {"type", "id", "name", "input"})
      [] Get(b, "type") = JStr("tool_result") ->
            Restrict(b, {"type", "tool_use_id", "content"})
      [] OTHER -> b

StripContent(c) ==
    IF c.t = "arr" THEN JArr([i \in DOMAIN c.items |-> StripBlock(c.items[i])])
    ELSE c

StripWrapper(m) ==
    IF Has(m, "content")
    THEN Restrict([m EXCEPT !.f["content"] = StripContent(@)],
                  {"role", "content"})
    ELSE Restrict(m, {"role", "content"})

\* the value without the keys the schemas do not know
StripUnknown(v) ==
    LET a == IF Has(v, "message")
             THEN [v EXCEPT !.f["message"] = StripWrapper(@)] ELSE v
        b == IF Has(a, "content")
             THEN [a EXCEPT !.f["content"] = StripContent(@)] ELSE a
    IN  Restrict(b, {"type", "message", "content", "timestamp"})

\* the type SessionMessage, of decoded values
IsContent(c) ==
    \/ IsStr(c)
    \/ /\ c.t = "arr"
       /\ \A i \in DOMAIN c.items :
            LET b == c.items[i]
            IN  \/ b.type = "text" /\ DOMAIN b = {"type", "text"}
                \/ /\ b.type = "tool_use"
                   /\ DOMAIN b = {"type", "id", "name", "input"}
                   /\ b.id = Undefined \/ IsStr(b.id)
                \/ /\ b.type = "tool_result"
                   /\ DOMAIN b = {"type", "tool_use_id", "content"}
                   /\ b.tool_use_id = Undefined \/ IsStr(b.tool_use_id)

IsSessionMessage(raw) ==
    /\ raw.type \in Kinds
    /\ \/ raw.message = Undefined
       \/ /\ raw.message.role = Undefined \/ IsStr(raw.message.role)
          /\ IsContent(raw.message.content)
    /\ raw.content = Undefined \/ IsContent(raw.content)
    /\ raw.timestamp = Undefined \/ IsStr(raw.timestamp)

\* C8: a line has exactly one of three outcomes: ParseError when it is not
\* JSON; InvalidFormat when it is JSON and no RawRecord (the discriminator
\* missing or not one of the three kinds, a field of the wrong type);
\* success otherwise.  Keys the schemas do not know change nothing.
C8_ThreeOutcomes ==
    parsed # Idle =>
        LET json == JsonParse(line)
        IN  /\ parsed.t = "ok" \/ parsed = Fail("ParseError")
                \/ parsed = Fail("InvalidFormat")
            /\ parsed = Fail("ParseError") <=> json.t = "fail"
            /\ parsed.t = "ok" => IsSessionMessage(parsed.value)
            /\ json.t = "ok" =>
                /\ Get(json.value, "type") \notin {JStr(k) : k \in Kinds}
                       => parsed = Fail("InvalidFormat")
                /\ parsed = Fail("InvalidFormat")
                       <=> ~SessionMessageOk(StripUnknown(json.value))
                /\ parsed = parseJsonlLine(<<J(StripUnknown(json.value))>>)

\* a line with an unknown key has been parsed with success
C8_Witness ==
    /\ parsed.t = "ok"
    /\ Has(JsonParse(line).value, "uuid")

----------------------------------------------------------------------------
(* Strings, as JavaScript's String methods compute on them.                *)

StartsWith(s, p) == Len(s) >= Len(p) /\ SubSeq(s, 1, Len(p)) = p

EndsWith(s, p) ==
    Len(s) >= Len(p) /\ SubSeq(s, Len(s) - Len(p) + 1, Len(s)) = p

\* String.prototype.indexOf, counted from 1, 0 when p does not occur
IndexOf(s, p) ==
    LET hits == {i \in 1..(Len(s) - Len(p) + 1) :
                    SubSeq(s, i, i + Len(p) - 1) = p}
    IN  IF hits = {} THEN 0 ELSE CHOOSE i \in hits : \A j \in hits : i <= j

Includes(s, p) == IndexOf(s, p) > 0

\* String.prototype.replace with a string pattern: the first occurrence
ReplaceFirst(s, p, r) ==
    LET i == IndexOf(s, p)
    IN  IF i = 0 THEN s
        ELSE SubSeq(s, 1, i - 1) \o r \o SubSeq(s, i + Len(p), Len(s))

UpperCase == "ABCDEFGHIJKLMNOPQRSTUVWXYZ"

LowerCase == "abcdefghijklmnopqrstuvwxyz"

LowerChar(c) ==
    LET i == IndexOf(UpperCase, c)
    IN  IF i = 0 THEN c ELSE SubSeq(LowerCase, i, i)

RECURSIVE ToLowerCase(_)
ToLowerCase(s) ==
    IF Len(s) = 0 THEN ""
    ELSE LowerChar(SubSeq(s, 1, 1)) \o ToLowerCase(SubSeq(s, 2, Len(s)))

----------------------------------------------------------------------------
(* The file system.  fs.root is the state of the projects directory:       *)
(* absent, present, unlistable (it exists and cannot be read) or           *)
(* uncheckable (the existence check itself fails).  fs.projects are its    *)
(* entries in listing order: [name, listable, files]; files are a          *)
(* directory's entries in listing order: [name, stat, mtime, readable,     *)
(* content].  A path is the sequence of names below the projects           *)
(* directory.                                                              *)

\* one call of the FileSystem service
Call(op, path) == [op |-> op, path |-> path]

\* content.split("\n")
RECURSIVE Split(_)
Split(content) ==
    LET breaks == {i \in DOMAIN content : content[i] = NL}
    IN  IF breaks = {} THEN <<content>>
        ELSE LET i == CHOOSE b \in breaks : \A c \in breaks : b <= c
             IN  <<SubSeq(content, 1, i - 1)>>
                    \o Split(SubSeq(content, i + 1, Len(content)))

\* a faulty variant of NonBlank: a line of white space counts
NonBlank_notEmpty(l) == l # <<>>

\* l => l.trim(): the empty string is falsy
NonBlank(l) == Trim(l) # <<>>

\* content.split("\n").filter(l => l.trim())
NonBlankLines(content) == SelectSeq(Split(content), NonBlank)

\* fs.readFileString(filePath)
ReadFileString(fsys, path) ==
    LET ps == {i \in DOMAIN fsys.projects : fsys.projects[i].name = path[1]}
    IN  IF fsys.root # "present" \/ ps = {}
        THEN Fail("SystemError")
        ELSE LET files == fsys.projects[CHOOSE i \in ps : TRUE].files
                 fi == {j \in DOMAIN files : files[j].name = path[2]}
             IN  IF fi = {} THEN Fail("SystemError")
                 ELSE LET file == files[CHOOSE j \in fi : TRUE]
                      IN  IF file.readable THEN Ok(file.content)
                          ELSE Fail("SystemError")

----------------------------------------------------------------------------
(* Session Discovery.                                                      *)

\* a faulty variant of DiscoverFile: every file of the .jsonl suffix is a
\* candidate
DiscoverFile_anyJsonl(entry, file, acc) ==
    IF ~EndsWith(file.name, ".jsonl")
    THEN acc
    ELSE LET filePath == <<entry.name, file.name>>
             stat == Call("stat", filePath)
         IN  IF file.stat = "ok" /\ file.mtime # None
             THEN LET content == IF file.readable THEN file.content ELSE <<>>
                  IN  [sessions |-> Append(acc.sessions,
                          [id |-> ReplaceFirst(
                                    ReplaceFirst(file.name, "chat_", ""),
                                    ".jsonl", ""),
                           projectPath |-> <<entry.name>>,
                           projectName |-> entry.name,
                           filePath |-> filePath,
                           lastModified |-> file.mtime.value,
                           messageCount |-> Len(NonBlankLines(content)),
                           sizeBytes |-> Len(file.content)]),
                       ops |-> acc.ops \o
                                <<stat, Call("readFileString", filePath)>>]
             ELSE [sessions |-> acc.sessions, ops |-> Append(acc.ops, stat)]

\* one candidate file: stat, then the read that counts the lines
DiscoverFile(entry, file, acc) ==
    IF ~(StartsWith(file.name, "chat_") /\ EndsWith(file.name, ".jsonl"))
    THEN acc
    ELSE LET filePath == <<entry.name, file.name>>
             stat == Call("stat", filePath)
         IN  IF file.stat = "ok" /\ file.mtime # None
             THEN LET content == IF file.readable THEN file.content ELSE <<>>
                  IN  [sessions |-> Append(acc.sessions,
                          [id |-> ReplaceFirst(
                                    ReplaceFirst(file.name, "chat_", ""),
                                    ".jsonl", ""),
                           projectPath |-> <<entry.name>>,
                           projectName |-> entry.name,
                           filePath |-> filePath,
                           lastModified |-> file.mtime.value,
                           messageCount |-> Len(NonBlankLines(content)),
                           sizeBytes |-> Len(file.content)]),
                       ops |-> acc.ops \o
                                <<stat, Call("readFileString", filePath)>>]
             ELSE [sessions |-> acc.sessions, ops |-> Append(acc.ops, stat)]

\* for (const file of projectEntries)
RECURSIVE DiscoverFiles(_, _, _)
DiscoverFiles(entry, files, acc) ==
    IF files = <<>> THEN acc
    ELSE DiscoverFiles(entry, Tail(files),
                       DiscoverFile(entry, Head(files), acc))

\* a faulty variant of DiscoverEntry: the filter is compared with the
\* letters' case
DiscoverEntry_caseSensitive(entry, cfg, acc) ==
    IF cfg # None /\ ~Includes(entry.name, cfg.value)
    THEN acc
    ELSE DiscoverFiles(entry,
            IF entry.listable THEN entry.files ELSE <<>>,
            [sessions |-> acc.sessions,
             ops |-> Append(acc.ops, Call("readDirectory", <<entry.name>>))])

\* one entry of the projects directory: the filter, then its listing, which
\* is empty when it fails
DiscoverEntry(entry, cfg, acc) ==
    IF cfg # None /\ ~Includes(ToLowerCase(entry.name), ToLowerCase(cfg.value))
    THEN acc
    ELSE DiscoverFiles(entry,
            IF entry.listable THEN entry.files ELSE <<>>,
            [sessions |-> acc.sessions,
             ops |-> Append(acc.ops, Call("readDirectory", <<entry.name>>))])

\* for (const entry of entries)
RECURSIVE DiscoverEntries(_, _, _)
DiscoverEntries(entries, cfg, acc) ==
    IF entries = <<>> THEN acc
    ELSE DiscoverEntries(Tail(entries), cfg,
                         DiscoverEntry(Head(entries), cfg, acc))

\* a faulty variant of compareSessions: oldest first
compareSessions_ascending(a, b) == a.lastModified - b.lastModified

\* (a, b) => b.lastModified.getTime() - a.lastModified.getTime()
compareSessions(a, b) == b.lastModified - a.lastModified

\* x put behind every element that does not compare greater than it
RECURSIVE InsertSorted(_, _)
InsertSorted(sorted, x) ==
    IF sorted = <<>> THEN <<x>>
    ELSE IF compareSessions(Head(sorted), x) <= 0
         THEN <<Head(sorted)>> \o InsertSorted(Tail(sorted), x)
         ELSE <<x>> \o sorted

\* Array.prototype.sort with the comparator: a stable sort
RECURSIVE SortSessions(_)
SortSessions(sessions) ==
    IF sessions = <<>> THEN <<>>
    ELSE InsertSorted(SortSessions(SubSeq(sessions, 1, Len(sessions) - 1)),
                      sessions[Len(sessions)])

\* a faulty variant of discoverSessions: the projects directory is listed without
\* the existence check
discoverSessions_noExistsCheck(fsys, cfg) ==
    LET list == <<Call("readDirectory", <<>>)>>
    IN  IF fsys.root # "present"
        THEN [result |-> Fail("IoError"), ops |-> list]
        ELSE LET acc == DiscoverEntries(fsys.projects, cfg,
                            [sessions |-> <<>>, ops |-> list])
             IN  [result |-> Ok(SortSessions(acc.sessions)), ops |-> acc.ops]

\* a faulty variant of discoverSessions: a project directory that cannot be
\* listed, or a file without stat, fails the discovery
discoverSessions_failOnEntry(fsys, cfg) ==
    LET exists == <<Call("exists", <<>>)>>
        list == Append(exists, Call("readDirectory", <<>>))
    IN  IF fsys.root = "uncheckable"
        THEN [result |-> Fail("IoError"), ops |-> exists]
        ELSE IF fsys.root = "absent"
        THEN [result |-> Ok(<<>>), ops |-> exists]
        ELSE IF fsys.root = "unlistable"
        THEN [result |-> Fail("IoError"), ops |-> list]
        ELSE LET acc == DiscoverEntries(fsys.projects, cfg,
                            [sessions |-> <<>>, ops |-> list])
             IN  IF \E i \in DOMAIN fsys.projects :
                        \/ ~fsys.projects[i].listable
                        \/ \E j \in DOMAIN fsys.projects[i].files :
                              fsys.projects[i].files[j].stat # "ok"
                 THEN [result |-> Fail("IoError"), ops |-> acc.ops]
                 ELSE [result |-> Ok(SortSessions(acc.sessions)),
                       ops |-> acc.ops]

\* discover: the sessions, or SessionError IoError, with the calls made
discoverSessions(fsys, cfg) ==
    LET exists == <<Call("exists", <<>>)>>
        list == Append(exists, Call("readDirectory", <<>>))
    IN  IF fsys.root = "uncheckable"
        THEN [result |-> Fail("IoError"), ops |-> exists]
        ELSE IF fsys.root = "absent"
        THEN [result |-> Ok(<<>>), ops |-> exists]
        ELSE IF fsys.root = "unlistable"
        THEN [result |-> Fail("IoError"), ops |-> list]
        ELSE LET acc == DiscoverEntries(fsys.projects, cfg,
                            [sessions |-> <<>>, ops |-> list])
             IN  [result |-> Ok(SortSessions(acc.sessions)), ops |-> acc.ops]

----------------------------------------------------------------------------
(* Session Loader.                                                         *)

\* a faulty variant of LoadLines: each message is put in front of the earlier ones
RECURSIVE LoadLines_newestFirst(_, _)
LoadLines_newestFirst(lines, messages) ==
    IF lines = <<>> THEN messages
    ELSE LET p == parseJsonlLine(Head(lines))
             n == IF p.t = "ok" THEN normalizeMessage(p.value) ELSE None
         IN  LoadLines_newestFirst(Tail(lines),
                       IF n.t = "some" THEN <<n.value>> \o messages
                       ELSE messages)

\* for (const line of lines): a line that fails to parse, or that
\* normalizes to none, is passed over
RECURSIVE LoadLines(_, _)
LoadLines(lines, messages) ==
    IF lines = <<>> THEN messages
    ELSE LET p == parseJsonlLine(Head(lines))
             n == IF p.t = "ok" THEN normalizeMessage(p.value) ELSE None
         IN  LoadLines(Tail(lines),
                       IF n.t = "some" THEN Append(messages, n.value)
                       ELSE messages)

\* a faulty variant of loadSession: a line that fails to parse fails the load
loadSession_strict(fsys, metadata) ==
    LET content == ReadFileString(fsys, metadata.filePath)
        ops == <<Call("readFileString", metadata.filePath)>>
    IN  IF content.t = "fail"
        THEN [result |-> Fail("IoError"), ops |-> ops]
        ELSE LET lines == NonBlankLines(content.value)
             IN  IF \E i \in DOMAIN lines : parseJsonlLine(lines[i]).t = "fail"
                 THEN [result |-> Fail("ParseError"), ops |-> ops]
                 ELSE [result |-> Ok([metadata |-> metadata,
                                      messages |-> LoadLines(lines, <<>>)]),
                       ops |-> ops]

\* a faulty variant of loadSession: the metadata is brought up to date with
\* the content read
loadSession_refreshed(fsys, metadata) ==
    LET content == ReadFileString(fsys, metadata.filePath)
        ops == <<Call("readFileString", metadata.filePath)>>
    IN  IF content.t = "fail"
        THEN [result |-> Fail("IoError"), ops |-> ops]
        ELSE [result |-> Ok([metadata |->
                                [metadata EXCEPT
                                    !.messageCount =
                                        Len(NonBlankLines(content.value)),
                                    !.sizeBytes = Len(content.value)],
                             messages |-> LoadLines(
                                NonBlankLines(content.value), <<>>)]),
              ops |-> ops]

\* load(metadata): the session, or SessionError IoError, with the calls made
loadSession(fsys, metadata) ==
    LET content == ReadFileString(fsys, metadata.filePath)
        ops == <<Call("readFileString", metadata.filePath)>>
    IN  IF content.t = "fail"
        THEN [result |-> Fail("IoError"), ops |-> ops]
        ELSE [result |-> Ok([metadata |-> metadata,
                             messages |-> LoadLines(
                                NonBlankLines(content.value), <<>>)]),
              ops |-> ops]

----------------------------------------------------------------------------
(* loadMostRecent and loadByProject: a discovery, then the load of one of  *)
(* its sessions.                                                           *)

\* the first session of a sequence that can be read, or none
RECURSIVE FirstReadable(_, _)
FirstReadable(fsys, sessions) ==
    IF sessions = <<>> THEN None
    ELSE IF ReadFileString(fsys, Head(sessions).filePath).t = "ok"
         THEN Some(Head(sessions))
         ELSE FirstReadable(fsys, Tail(sessions))

\* a faulty variant of loadMostRecent: a session that cannot be read is
\* passed over for the next one
loadMostRecent_fallback(fsys, cfg) ==
    LET d == discoverSessions(fsys, cfg)
    IN  IF d.result.t = "fail" THEN d
        ELSE IF Len(d.result.value) = 0
        THEN [result |-> Fail("NotFound"), ops |-> d.ops]
        ELSE LET m == FirstReadable(fsys, d.result.value)
                 l == loadSession(fsys, IF m = None THEN d.result.value[1]
                                        ELSE m.value)
             IN  [result |-> l.result, ops |-> d.ops \o l.ops]

\* loadMostRecent: the session, or a SessionError, with the calls made
loadMostRecent(fsys, cfg) ==
    LET d == discoverSessions(fsys, cfg)
    IN  IF d.result.t = "fail" THEN d
        ELSE IF Len(d.result.value) = 0
        THEN [result |-> Fail("NotFound"), ops |-> d.ops]
        ELSE LET l == loadSession(fsys, d.result.value[1])
             IN  [result |-> l.result, ops |-> d.ops \o l.ops]

\* sessions.find(s => s.projectName.toLowerCase().includes(
\* projectName.toLowerCase())): the first such session, or Undefined
RECURSIVE FindByProject(_, _)
FindByProject(sessions, projectName) ==
    IF sessions = <<>> THEN Undefined
    ELSE IF Includes(ToLowerCase(Head(sessions).projectName),
                     ToLowerCase(projectName))
         THEN Head(sessions)
         ELSE FindByProject(Tail(sessions), projectName)

\* a faulty variant of loadByProject: the sessions are searched from the
\* oldest
loadByProject_oldest(fsys, cfg, projectName) ==
    LET d == discoverSessions(fsys, cfg)
        n == IF d.result.t = "ok" THEN Len(d.result.value) ELSE 0
    IN  IF d.result.t = "fail" THEN d
        ELSE LET matching == FindByProject(
                    [i \in 1..n |-> d.result.value[n + 1 - i]], projectName)
             IN  IF matching = Undefined
                 THEN [result |-> Fail("NotFound"), ops |-> d.ops]
                 ELSE LET l == loadSession(fsys, matching)
                      IN  [result |-> l.result, ops |-> d.ops \o l.ops]

\* loadByProject(projectName): the session, or a SessionError, with the
\* calls made
loadByProject(fsys, cfg, projectName) ==
    LET d == discoverSessions(fsys, cfg)
    IN  IF d.result.t = "fail" THEN d
        ELSE LET matching == FindByProject(d.result.value, projectName)
             IN  IF matching = Undefined
                 THEN [result |-> Fail("NotFound"), ops |-> d.ops]
                 ELSE LET l == loadSession(fsys, matching)
                      IN  [result |-> l.result, ops |-> d.ops \o l.ops]

----------------------------------------------------------------------------
(* The --since filter of the command line.                                 *)

WhiteSpace == {" ", "\n", "\t"}

\* String.prototype.trim on a string
RECURSIVE StrTrimLeft(_)
StrTrimLeft(s) ==
    IF Len(s) > 0 /\ SubSeq(s, 1, 1) \in WhiteSpace
    THEN StrTrimLeft(SubSeq(s, 2, Len(s)))
    ELSE s

RECURSIVE StrTrimRight(_)
StrTrimRight(s) ==
    IF Len(s) > 0 /\ SubSeq(s, Len(s), Len(s)) \in WhiteSpace
    THEN StrTrimRight(SubSeq(s, 1, Len(s) - 1))
    ELSE s

StrTrim(s) == StrTrimRight(StrTrimLeft(s))

\* git log -1 --format=%cI: its output trimmed and read as a date; nothing
\* when the command fails, prints nothing or prints no date
getLastCommitTimestamp(git) ==
    IF git.t = "fail" THEN None
    ELSE LET trimmed == StrTrim(git.value)
         IN  IF trimmed = "" THEN None
             ELSE IF NewDate(trimmed).valid THEN Some(NewDate(trimmed))
             ELSE None

\* the --since option as a date: the last commit's, or the value read as a
\* date, nothing when it is no date
parseSinceOption(since, git) ==
    IF since = None THEN None
    ELSE IF since.value = "last-commit" THEN getLastCommitTimestamp(git)
    ELSE IF NewDate(since.value).valid THEN Some(NewDate(since.value))
    ELSE None

\* ts.getTime() > sinceDate.getTime(): false when ts is the Invalid Date,
\* whose time value is NaN
IsAfter(ts, sinceDate) == ts.valid /\ ts.time > sinceDate.time

\* a faulty variant of KeptSince: a message of the cutoff's own time is kept
KeptSince_inclusive(msg, sinceDate) ==
    \/ msg.timestamp = None
    \/ msg.timestamp.value.valid
            /\ msg.timestamp.value.time >= sinceDate.time

\* the predicate of the filter: a message without timestamp, or after the
\* cutoff
KeptSince(msg, sinceDate) ==
    IF msg.timestamp = None THEN TRUE
    ELSE IsAfter(msg.timestamp.value, sinceDate)

\* filterSessionSince(session, since)
filterSessionSince(s, since) ==
    IF since = None THEN s
    ELSE [s EXCEPT !.messages =
            SelectSeq(s.messages, LAMBDA msg : KeptSince(msg, since.value))]

----------------------------------------------------------------------------
(* The formatter.  An output is modelled by its parts: the metadata header *)
(* and one section per rendered message, with the texts the code computes. *)

\* an exception thrown inside Effect.sync: a defect, not a FormatterError
Die(r) == [t |-> "die", defect |-> r]

\* the dates of the model as ISO strings
IsoText(n) ==
    CASE n = 1 -> "2024-01-01T00:00:00.000Z"
      [] n = 2 -> "2024-01-02T00:00:00.000Z"
      [] n = 3 -> "2024-01-03T00:00:00.000Z"
      [] OTHER -> "2024-01-04T00:00:00.000Z"

\* Date.prototype.toISOString: throws RangeError on the Invalid Date
toISOString(date) ==
    IF date.valid THEN Ok(IsoText(date.time)) ELSE Die("RangeError")

\* date.toISOString().replace("T", " ").substring(0, 19)
formatTimestamp(date) ==
    LET iso == toISOString(date)
    IN  IF iso.t = "ok"
        THEN Ok(SubSeq(ReplaceFirst(iso.value, "T", " "), 1, 19))
        ELSE iso

\* the modification time of a file as a Date
DateOf(time) == [valid |-> TRUE, time |-> time]

defaultFormatOptions ==
    [includeToolUse |-> TRUE, includeTimestamps |-> TRUE,
     maxContentLength |-> 0, includeMetadata |-> TRUE, title |-> None]

\* { ...defaultFormatOptions, ...partialOptions }
MergeOptions(partialOptions) ==
    [k \in DOMAIN defaultFormatOptions |->
        IF k \in DOMAIN partialOptions THEN partialOptions[k]
        ELSE defaultFormatOptions[k]]

truncateContent(content, maxLength) ==
    IF maxLength <= 0 \/ Len(content) <= maxLength THEN content
    ELSE SubSeq(content, 1, maxLength) \o "\n\n...(truncated)"

\* one character of escapeHtml
EscapeChar(c) ==
    CASE c = "&" -> "&amp;"
      [] c = "<" -> "&lt;"
      [] c = ">" -> "&gt;"
      [] c = "\"" -> "&quot;"
      [] c = "'" -> "&#039;"
      [] OTHER -> c

RECURSIVE escapeHtml(_)
escapeHtml(text) ==
    IF Len(text) = 0 THEN ""
    ELSE EscapeChar(SubSeq(text, 1, 1)) \o escapeHtml(SubSeq(text, 2, Len(text)))

\* .replace(/\n/g, "<br>")
RECURSIVE BreakLines(_)
BreakLines(text) ==
    IF Len(text) = 0 THEN ""
    ELSE (IF SubSeq(text, 1, 1) = "\n" THEN "<br>" ELSE SubSeq(text, 1, 1))
            \o BreakLines(SubSeq(text, 2, Len(text)))

\* [...new Set(toolNames)]: each name once, in the order of first occurrence
RECURSIVE Unique(_)
Unique(names) ==
    IF names = <<>> THEN <<>>
    ELSE LET front == Unique(SubSeq(names, 1, Len(names) - 1))
             last == names[Len(names)]
         IN  IF \E i \in DOMAIN front : front[i] = last THEN front
             ELSE Append(front, last)

\* Array.prototype.join(", ")
RECURSIVE JoinComma(_)
JoinComma(strs) ==
    IF strs = <<>> THEN ""
    ELSE IF Len(strs) = 1 THEN strs[1]
    ELSE JoinComma(SubSeq(strs, 1, Len(strs) - 1)) \o ", " \o strs[Len(strs)]

\* toolUses.map(t => t.name)
ToolNames(toolUses) == [i \in DOMAIN toolUses |-> toolUses[i].name]

\* msg.content.trim().length > 0
HasTextContent(msg) == Len(StrTrim(msg.content)) > 0

\* formatMessageMarkdown(msg, index, options): the heading with the number
\* and the timestamp, the text or the summary of the tools, the details of
\* the tools
formatMessageMarkdown(msg, index, options) ==
    LET stamp == IF options.includeTimestamps /\ msg.timestamp # None
                 THEN formatTimestamp(msg.timestamp.value)
                 ELSE Ok("")
        hasToolUses == Len(msg.toolUses) > 0
    IN  IF stamp.t # "ok" THEN stamp
        ELSE Ok([roleName |-> IF msg.role = "user" THEN "User" ELSE "Claude",
                 number |-> index + 1,
                 stamp |-> IF stamp.value = "" THEN ""
                           ELSE " - " \o stamp.value,
                 body |-> IF HasTextContent(msg)
                          THEN truncateContent(msg.content,
                                               options.maxContentLength)
                          ELSE IF hasToolUses /\ options.includeToolUse
                          THEN "*Used tools: "
                                 \o JoinComma(Unique(ToolNames(msg.toolUses)))
                                 \o "*"
                          ELSE "",
                 details |-> IF options.includeToolUse /\ hasToolUses
                                    /\ HasTextContent(msg)
                             THEN msg.toolUses ELSE <<>>])

\* (sizeBytes / 1024).toFixed(1), in tenths of a KB
SizeTenths(sizeBytes) == (sizeBytes * 10 + 512) \div 1024

\* formatMetadataMarkdown(metadata, title)
formatMetadataMarkdown(metadata, title) ==
    LET modified == formatTimestamp(DateOf(metadata.lastModified))
    IN  IF modified.t # "ok" THEN modified
        ELSE Ok([title |-> IF title = None THEN metadata.projectName
                           ELSE title.value,
                 sessionId |-> metadata.id,
                 project |-> metadata.projectName,
                 lastModified |-> modified.value,
                 messages |-> metadata.messageCount,
                 size |-> SizeTenths(metadata.sizeBytes)])

\* a faulty variant of hasDisplayableContent: tool uses show a message of
\* either role
hasDisplayableContent_anyRole(msg, options) ==
    \/ Len(StrTrim(msg.content)) > 0
    \/ options.includeToolUse /\ Len(msg.toolUses) > 0

hasDisplayableContent(msg, options) ==
    IF Len(StrTrim(msg.content)) > 0 THEN TRUE
    ELSE IF msg.role = "assistant" /\ options.includeToolUse
                /\ Len(msg.toolUses) > 0
    THEN TRUE
    ELSE FALSE

\* session.messages.filter(msg => hasDisplayableContent(msg, options))
Displayable(s, options) ==
    SelectSeq(s.messages, LAMBDA msg : hasDisplayableContent(msg, options))

\* the sections, or the first exception thrown while they are made
Sections(results) ==
    LET thrown == {i \in DOMAIN results : results[i].t # "ok"}
    IN  IF thrown # {}
        THEN results[CHOOSE i \in thrown : \A j \in thrown : i <= j]
        ELSE Ok([i \in DOMAIN results |-> results[i].value])

\* a faulty variant of formatToMarkdown: the Messages row counts the messages
\* displayed
formatToMarkdown_displayedCount(s, options) ==
    LET header == IF options.includeMetadata
                  THEN formatMetadataMarkdown(s.metadata, options.title)
                  ELSE Ok(None)
        displayableMessages == Displayable(s, options)
        sections == Sections([i \in DOMAIN displayableMessages |->
                        formatMessageMarkdown(displayableMessages[i], i - 1,
                                              options)])
    IN  IF header.t # "ok" THEN header
        ELSE IF sections.t # "ok" THEN sections
        ELSE Ok([format |-> "markdown",
                 header |-> IF header.value = None THEN None
                            ELSE [header.value EXCEPT
                                    !.messages = Len(displayableMessages)],
                 sections |-> sections.value])

formatToMarkdown(s, options) ==
    LET header == IF options.includeMetadata
                  THEN formatMetadataMarkdown(s.metadata, options.title)
                  ELSE Ok(None)
        displayableMessages == Displayable(s, options)
        sections == Sections([i \in DOMAIN displayableMessages |->
                        formatMessageMarkdown(displayableMessages[i], i - 1,
                                              options)])
    IN  IF header.t # "ok" THEN header
        ELSE IF sections.t # "ok" THEN sections
        ELSE Ok([format |-> "markdown",
                 header |-> header.value,
                 sections |-> sections.value])

\* one message of the JSON export
formatMessageJson(msg, options) ==
    LET timestamp == IF msg.timestamp # None
                     THEN toISOString(msg.timestamp.value)
                     ELSE Ok(JNull)
    IN  IF timestamp.t # "ok" THEN timestamp
        ELSE Ok([role |-> msg.role,
                 content |-> truncateContent(msg.content,
                                             options.maxContentLength),
                 timestamp |-> timestamp.value,
                 toolUses |-> IF options.includeToolUse
                                    /\ Len(msg.toolUses) > 0
                              THEN msg.toolUses ELSE Undefined,
                 toolResults |-> IF options.includeToolUse
                                        /\ Len(msg.toolResults) > 0
                                 THEN msg.toolResults ELSE Undefined])

formatToJson(s, options) ==
    LET displayableMessages == Displayable(s, options)
        modified == toISOString(DateOf(s.metadata.lastModified))
        sections == Sections([i \in DOMAIN displayableMessages |->
                        formatMessageJson(displayableMessages[i], options)])
    IN  IF modified.t # "ok" THEN modified
        ELSE IF sections.t # "ok" THEN sections
        ELSE Ok([format |-> "json",
                 header |-> [sessionId |-> s.metadata.id,
                             project |-> s.metadata.projectName,
                             lastModified |-> modified.value,
                             messageCount |-> Len(displayableMessages)],
                 sections |-> sections.value])

\* one message of the HTML export
formatMessageHtml(msg, index, options) ==
    LET stamp == IF options.includeTimestamps /\ msg.timestamp # None
                 THEN formatTimestamp(msg.timestamp.value)
                 ELSE Ok("")
    IN  IF stamp.t # "ok" THEN stamp
        ELSE Ok([roleClass |-> IF msg.role = "user" THEN "user"
                               ELSE "assistant",
                 roleName |-> IF msg.role = "user" THEN "User" ELSE "Claude",
                 number |-> index + 1,
                 stamp |-> stamp.value,
                 contentHtml |-> BreakLines(escapeHtml(
                        truncateContent(msg.content,
                                        options.maxContentLength))),
                 tools |-> IF options.includeToolUse /\ Len(msg.toolUses) > 0
                           THEN [i \in DOMAIN msg.toolUses |->
                                    [name |-> escapeHtml(msg.toolUses[i].name),
                                     input |-> msg.toolUses[i].input]]
                           ELSE <<>>])

formatToHtml(s, options) ==
    LET displayableMessages == Displayable(s, options)
        sections == Sections([i \in DOMAIN displayableMessages |->
                        formatMessageHtml(displayableMessages[i], i - 1,
                                          options)])
        modified == IF options.includeMetadata
                    THEN formatTimestamp(DateOf(s.metadata.lastModified))
                    ELSE Ok("")
    IN  IF sections.t # "ok" THEN sections
        ELSE IF modified.t # "ok" THEN modified
        ELSE Ok([format |-> "html",
                 title |-> escapeHtml(IF options.title = None
                                      THEN s.metadata.projectName
                                      ELSE options.title.value),
                 header |-> IF options.includeMetadata
                            THEN [project |-> escapeHtml(s.metadata.projectName),
                                  sessionId |-> escapeHtml(s.metadata.id),
                                  lastModified |-> modified.value,
                                  messages |-> Len(displayableMessages)]
                            ELSE None,
                 sections |-> sections.value])

\* format(session, outputFormat, partialOptions)
format(s, outputFormat, partialOptions) ==
    LET options == MergeOptions(partialOptions)
    IN  CASE outputFormat = "markdown" -> formatToMarkdown(s, options)
          [] outputFormat = "json" -> formatToJson(s, options)
          [] outputFormat = "html" -> formatToHtml(s, options)

----------------------------------------------------------------------------
(* The GistService (Gist.ts).  The world outside the service is a record:  *)
(* envToken is GITHUB_TOKEN, executor and client tell whether a            *)
(* CommandExecutor and an HttpClient are in the context, ghAuth is the     *)
(* outcome of gh auth status, ghOutput that of gh gist create or edit, and *)
(* http the outcomes of the HTTP attempts in their order, the last one     *)
(* standing for all later ones.                                            *)

\* GistConfig.Default
GistConfigDefault(envToken) ==
    [token |-> envToken, preferCli |-> TRUE, retryAttempts |-> 3]

\* GistConfig.make(config): each field of config, or its default
GistConfigMake(partial, envToken) ==
    [token |-> IF "token" \in DOMAIN partial THEN partial.token
               ELSE envToken,
     preferCli |-> IF "preferCli" \in DOMAIN partial THEN partial.preferCli
                   ELSE TRUE,
     retryAttempts |-> IF "retryAttempts" \in DOMAIN partial
                       THEN partial.retryAttempts ELSE 3]

\* a layer of the GistService is the GistConfig it was built with, or
\* RequiresConfig while it still requires one
RequiresConfig == [t |-> "requires"]

\* Layer.provide: the services of the layer provided go to the
\* requirements of the layer; a layer that requires nothing stays as it is
LayerProvide(layer, provided) ==
    IF layer = RequiresConfig THEN provided ELSE layer

\* GistServiceLive: Layer.effect(...).pipe(Layer.provide(GistConfig.Default))
GistServiceLive(envToken) ==
    LayerProvide(RequiresConfig, GistConfigDefault(envToken))

\* makeGistService(config?)
makeGistService(given, envToken) ==
    LayerProvide(GistServiceLive(envToken),
                 IF given = Undefined THEN GistConfigDefault(envToken)
                 ELSE GistConfigMake(given, envToken))

\* a command of the gh CLI, and a request of the HTTP API with its bearer
\* token
Gh(args) == [via |-> "gh", args |-> args]

Http(method, url, token) ==
    [via |-> "http", method |-> method, url |-> url, token |-> token]

\* the instant of new Date()
Now == [valid |-> TRUE, time |-> 2]

\* checkAuthViaCli behind Effect.serviceOption(CommandExecutor): the exit
\* code of gh auth status is 0; a failure to run it counts as 1, and
\* without an executor nothing is run
CliAuth(world) ==
    [value |-> world.executor /\ world.ghAuth = "exit0",
     calls |-> IF world.executor THEN <<Gh(<<"auth", "status">>)>> ELSE <<>>]

\* output.match(/https:\/\/gist\.github\.com\/[^\s]+/)?.[0] ?? ""
MatchGistUrl(output) ==
    LET prefix == "https://gist.github.com/"
        starts == {i \in 1..Len(output) :
                    /\ i + Len(prefix) <= Len(output)
                    /\ SubSeq(output, i, i + Len(prefix) - 1) = prefix
                    /\ SubSeq(output, i + Len(prefix), i + Len(prefix))
                            \notin WhiteSpace}
    IN  IF starts = {} THEN ""
        ELSE LET i == CHOOSE x \in starts : \A y \in starts : x <= y
                 stops == {j \in i..Len(output) :
                            SubSeq(output, j, j) \in WhiteSpace}
                 last == IF stops = {} THEN Len(output)
                         ELSE (CHOOSE x \in stops : \A y \in stops : x <= y)
                                - 1
             IN  SubSeq(output, i, last)

HexDigits == "0123456789abcdef"

\* htmlUrl.match(/\/([a-f0-9]+)$/)?.[1] ?? ""
MatchGistId(htmlUrl) ==
    LET slashes == {i \in 1..Len(htmlUrl) : SubSeq(htmlUrl, i, i) = "/"}
    IN  IF slashes = {} THEN ""
        ELSE LET i == CHOOSE x \in slashes : \A y \in slashes : y <= x
                 tail == SubSeq(htmlUrl, i + 1, Len(htmlUrl))
             IN  IF /\ Len(tail) > 0
                    /\ \A k \in 1..Len(tail) :
                            Includes(HexDigits, SubSeq(tail, k, k))
                 THEN tail
                 ELSE ""

\* createGistViaCli; the strings of the GistResult are JStr
createGistViaCli(options, world) ==
    IF options.files = <<>>
    THEN [result |-> Fail("ApiError"), calls |-> <<>>]
    ELSE LET command == Gh(<<"gist", "create">>)
         IN  IF world.ghOutput.t = "fail"
             THEN [result |-> Fail("CliError"), calls |-> <<command>>]
             ELSE LET htmlUrl == MatchGistUrl(world.ghOutput.value)
                      id == MatchGistId(htmlUrl)
                  IN  [result |->
                          Ok([id |-> JStr(id),
                              url |-> JStr("https://api.github.com/gists/"
                                            \o id),
                              htmlUrl |-> JStr(htmlUrl),
                              rawUrl |-> None,
                              description |-> JStr(options.description),
                              createdAt |-> Now]),
                       calls |-> <<command>>]

\* updateGistViaCli
updateGistViaCli(options, world) ==
    IF options.files = <<>>
    THEN [result |-> Fail("ApiError"), calls |-> <<>>]
    ELSE LET command == Gh(<<"gist", "edit", options.gistId>>)
         IN  IF world.ghOutput.t = "fail"
             THEN [result |-> Fail("CliError"), calls |-> <<command>>]
             ELSE [result |->
                      Ok([id |-> JStr(options.gistId),
                          url |-> JStr("https://api.github.com/gists/"
                                        \o options.gistId),
                          htmlUrl |-> JStr("https://gist.github.com/"
                                            \o options.gistId),
                          rawUrl |-> None,
                          description |-> JStr(options.description),
                          createdAt |-> Now]),
                   calls |-> <<command>>]

\* the outcome of the n-th HTTP attempt
Attempt(world, n) ==
    world.http[IF n <= Len(world.http) THEN n ELSE Len(world.http)]

\* client.execute(request).pipe(Effect.flatMap(res => res.json)): fails when
\* the request fails or the body is no JSON, whatever the status
AttemptOk(world, n) == Attempt(world, n).t = "response"

\* Schedule.recurs(3): three more attempts after the first
Recurs == 3

\* Effect.retry(Schedule.recurs(3).pipe(Schedule.intersect(
\* Schedule.exponential("1 second")))): the number of attempts made, the
\* last one being the first that succeeds or attempt 1 + Recurs
Attempts(world) ==
    LET good == {n \in 1..(1 + Recurs) : AttemptOk(world, n)}
    IN  IF good = {} THEN 1 + Recurs
        ELSE CHOOSE n \in good : \A m \in good : n <= m

\* property k of a response body, a string, undefined when it is missing
Prop(body, k) == IF k \in DOMAIN body THEN JStr(body[k]) ELSE Undefined

\* new Date(gist.created_at): the Invalid Date when the property is missing
DateOfProp(body, k) ==
    IF k \in DOMAIN body THEN NewDate(body[k])
    ELSE [valid |-> FALSE, time |-> 0]

\* the GistResult made of the response, its strings as JStr, what the body
\* lacks undefined; gist.files[...] throws a TypeError when there is a
\* first file and the body has no files
ResultOfResponse(body, files) ==
    IF files # <<>> /\ "files" \notin DOMAIN body THEN Die("TypeError")
    ELSE Ok([id |-> Prop(body, "id"),
             url |-> Prop(body, "url"),
             htmlUrl |-> Prop(body, "html_url"),
             rawUrl |-> IF /\ files # <<>>
                           /\ files[1].filename \in DOMAIN body.files
                        THEN Some(JStr(body.files[files[1].filename].raw_url))
                        ELSE None,
             description |-> Prop(body, "description"),
             createdAt |-> DateOfProp(body, "created_at")])

\* the requests of n attempts
Requests(req, n) == [i \in 1..n |-> req]

\* createGistViaApi
createGistViaApi(options, token, world) ==
    LET n == Attempts(world)
        calls == Requests(Http("POST", "https://api.github.com/gists", token),
                          n)
    IN  IF ~AttemptOk(world, n)
        THEN [result |-> Fail("ApiError"), calls |-> calls]
        ELSE [result |-> ResultOfResponse(Attempt(world, n).body,
                                          options.files),
              calls |-> calls]

\* updateGistViaApi
updateGistViaApi(options, token, world) ==
    LET n == Attempts(world)
        calls == Requests(Http("PATCH", "https://api.github.com/gists/"
                                            \o options.gistId, token), n)
    IN  IF ~AttemptOk(world, n)
        THEN [result |-> Fail("ApiError"), calls |-> calls]
        ELSE [result |-> ResultOfResponse(Attempt(world, n).body,
                                          options.files),
              calls |-> calls]

\* a faulty variant of create: the token is tried before the gh CLI
create_tokenFirst(cfg, world, options) ==
    IF cfg.token # None
    THEN IF world.client
         THEN createGistViaApi(options, cfg.token.value, world)
         ELSE [result |-> Fail("ApiError"), calls |-> <<>>]
    ELSE LET cliAuth == IF cfg.preferCli THEN CliAuth(world)
                        ELSE [value |-> FALSE, calls |-> <<>>]
             via == IF cliAuth.value THEN createGistViaCli(options, world)
                    ELSE [result |-> Fail("AuthError"), calls |-> <<>>]
         IN  [result |-> via.result, calls |-> cliAuth.calls \o via.calls]

\* GistService.create: the outcome and the calls made, in their order
create(cfg, world, options) ==
    LET cliAuth == IF cfg.preferCli THEN CliAuth(world)
                   ELSE [value |-> FALSE, calls |-> <<>>]
        via == IF cliAuth.value THEN createGistViaCli(options, world)
               ELSE IF cfg.token # None
               THEN IF world.client
                    THEN createGistViaApi(options, cfg.token.value, world)
                    ELSE [result |-> Fail("ApiError"), calls |-> <<>>]
               ELSE [result |-> Fail("AuthError"), calls |-> <<>>]
    IN  [result |-> via.result, calls |-> cliAuth.calls \o via.calls]

\* GistService.update
update(cfg, world, options) ==
    LET cliAuth == IF cfg.preferCli THEN CliAuth(world)
                   ELSE [value |-> FALSE, calls |-> <<>>]
        via == IF cliAuth.value THEN updateGistViaCli(options, world)
               ELSE IF cfg.token # None
               THEN IF world.client
                    THEN updateGistViaApi(options, cfg.token.value, world)
                    ELSE [result |-> Fail("ApiError"), calls |-> <<>>]
               ELSE [result |-> Fail("AuthError"), calls |-> <<>>]
    IN  [result |-> via.result, calls |-> cliAuth.calls \o via.calls]

\* GistService.getAuthMethod
getAuthMethod(cfg, world) ==
    LET cliAuth == IF cfg.preferCli THEN CliAuth(world)
                   ELSE [value |-> FALSE, calls |-> <<>>]
    IN  [result |-> Ok(IF cliAuth.value THEN "cli"
                       ELSE IF cfg.token # None THEN "token"
                       ELSE "none"),
         calls |-> cliAuth.calls]

----------------------------------------------------------------------------
(* The hook command (bin/cli.ts): the most recent session, formatted and   *)
(* archived as a gist, with one JSON object printed for the hook's caller. *)

AlphaNumeric == "abcdefghijklmnopqrstuvwxyz0123456789"

\* .replace(/[^a-z0-9]+/g, "-"): each run of other characters is one dash
RECURSIVE DashRuns(_, _)
DashRuns(text, inRun) ==
    IF Len(text) = 0 THEN ""
    ELSE LET c == SubSeq(text, 1, 1)
             rest == SubSeq(text, 2, Len(text))
         IN  IF Includes(AlphaNumeric, c) THEN c \o DashRuns(rest, FALSE)
             ELSE (IF inRun THEN "" ELSE "-") \o DashRuns(rest, TRUE)

\* .replace(/[:.]/g, "-")
RECURSIVE DashColons(_)
DashColons(text) ==
    IF Len(text) = 0 THEN ""
    ELSE (IF SubSeq(text, 1, 1) \in {":", "."} THEN "-"
          ELSE SubSeq(text, 1, 1)) \o DashColons(SubSeq(text, 2, Len(text)))

\* String.prototype.substring(0, n)
Substring0(text, n) == SubSeq(text, 1, IF Len(text) < n THEN Len(text) ELSE n)

\* formatter.generateFilename(metadata, format)
generateFilename(metadata, outputFormat) ==
    LET timestamp == Substring0(DashColons(toISOString(Now).value), 19)
        projectSlug == Substring0(
                        DashRuns(ToLowerCase(metadata.projectName), FALSE), 30)
        ext == IF outputFormat = "markdown" THEN "md" ELSE outputFormat
    IN  "claude-session-" \o projectSlug \o "-" \o timestamp \o "." \o ext

\* what a run of the command leaves: the lines printed on standard output
\* and how the command ended
Printed(object) == [stdout |-> <<object>>, exit |-> "ok"]

\* a defect: Effect.catchAll does not catch it, nothing is printed on
\* standard output and the command fails
Died(defect) == [stdout |-> <<>>, exit |-> "die", defect |-> defect]

\* JSON.stringify({ success: false, error: String(error) })
FailureObject(error) == [success |-> FALSE, error |-> error.reason]

\* hookCommand: loadMostRecent, format, gistService.create, and the object
\* printed; Effect.catchAll prints the failures
hookCommand(fsys, cfg, gistConfig, world, outputFormat, isPublic) ==
    LET l == loadMostRecent(fsys, cfg).result
        f == format(l.value, outputFormat, [includeToolUse |-> TRUE])
        filename == generateFilename(l.value.metadata, outputFormat)
        g == create(gistConfig, world,
                    [description |-> "Claude Code session: "
                        \o l.value.metadata.projectName \o " (auto-archived)",
                     files |-> <<[filename |-> filename,
                                  content |-> f.value]>>,
                     public |-> isPublic]).result
    IN  IF l.t = "fail" THEN Printed(FailureObject(l))
        ELSE IF f.t = "die" THEN Died(f.defect)
        ELSE IF g.t = "fail" THEN Printed(FailureObject(g))
        ELSE IF g.t = "die" THEN Died(g.defect)
        ELSE Printed([success |-> TRUE,
                      gistUrl |-> g.value.htmlUrl,
                      gistId |-> g.value.id,
                      project |-> l.value.metadata.projectName,
                      messageCount |-> Len(l.value.messages)])

----------------------------------------------------------------------------
(* The operations and the environment.                                     *)

\* discover
Discover ==
    /\ discovered = Idle
    /\ loaded = Idle
    /\ discovered' = discoverSessions(fs, config)
    /\ UNCHANGED <<line, parsed, normalized, fs, config, loaded,
                 request, session, formatted, gist, hook>>

\* a metadata of no file, as a caller may hand one to load
MissingMetadata ==
    [id |-> "gone", projectPath |-> <<"demo">>, projectName |-> "demo",
     filePath |-> <<"demo", "chat_gone.jsonl">>, lastModified |-> 1,
     messageCount |-> 1, sizeBytes |-> 1]

\* load(metadata), of a discovered metadata or of one of no file
Load ==
    /\ discovered # Idle
    /\ discovered.result.t = "ok"
    /\ loaded = Idle
    /\ \E m \in {discovered.result.value[i] :
                    i \in DOMAIN discovered.result.value}
                \cup {MissingMetadata} :
          loaded' = [metadata |-> m,
                     result |-> loadSession(fs, m).result,
                     ops |-> loadSession(fs, m).ops]
    /\ UNCHANGED <<line, parsed, normalized, fs, config, discovered,
                 request, session, formatted, gist, hook>>

\* loadMostRecent
LoadMostRecent ==
    /\ loaded = Idle
    /\ LET r == loadMostRecent(fs, config)
       IN  loaded' = [op |-> "loadMostRecent", result |-> r.result,
                      ops |-> r.ops]
    /\ UNCHANGED <<line, parsed, normalized, fs, config, discovered,
                 request, session, formatted, gist, hook>>

\* the names asked of loadByProject: in another case than a directory's
\* name, in both directories' names, in none
AskedNames == {"BAR", "O", "zzz"}

\* loadByProject(projectName)
LoadByProject ==
    /\ loaded = Idle
    /\ \E name \in AskedNames :
          LET r == loadByProject(fs, config, name)
          IN  loaded' = [op |-> "loadByProject", name |-> name,
                         result |-> r.result, ops |-> r.ops]
    /\ UNCHANGED <<line, parsed, normalized, fs, config, discovered,
                 request, session, formatted, gist, hook>>

\* gistService.create(options)
Create ==
    /\ gist # Idle
    /\ gist.run = Idle
    /\ LET r == create(gist.config, gist.world, gist.options)
       IN  gist' = [gist EXCEPT !.run = [op |-> "create",
                                         result |-> r.result,
                                         calls |-> r.calls]]
    /\ UNCHANGED <<line, parsed, normalized, fs, config, discovered, loaded,
                   request, session, formatted, hook>>

\* gistService.update(options)
Update ==
    /\ gist # Idle
    /\ gist.run = Idle
    /\ LET r == update(gist.config, gist.world, gist.options)
       IN  gist' = [gist EXCEPT !.run = [op |-> "update",
                                         result |-> r.result,
                                         calls |-> r.calls]]
    /\ UNCHANGED <<line, parsed, normalized, fs, config, discovered, loaded,
                   request, session, formatted, hook>>

\* gistService.getAuthMethod
GetAuthMethod ==
    /\ gist # Idle
    /\ gist.run = Idle
    /\ LET r == getAuthMethod(gist.config, gist.world)
       IN  gist' = [gist EXCEPT !.run = [op |-> "getAuthMethod",
                                         result |-> r.result,
                                         calls |-> r.calls]]
    /\ UNCHANGED <<line, parsed, normalized, fs, config, discovered, loaded,
                   request, session, formatted, hook>>

\* the hook command
Hook ==
    /\ request # Idle
    /\ gist # Idle
    /\ hook = Idle
    /\ hook' = hookCommand(fs, config, gist.config, gist.world,
                           request.format, request.public)
    /\ UNCHANGED <<line, parsed, normalized, fs, config, discovered, loaded,
                   request, session, formatted, gist>>

UserLine == J(Record("user", Undefined, JStr("hi"), Undefined))

AssistantLine == J(Record("assistant", Undefined, JStr("hello"), Undefined))

ToolLine ==
    J(Record("assistant",
             Wrapper(Undefined, JArr(<<JToolUse("Bash", "ls")>>)),
             Undefined, Undefined))

NoContentLine ==
    J(Record("user", Undefined, Undefined, JStr("2024-01-01T00:00:00.000Z")))

BadShapeLine == J(Record("summary", Undefined, JStr("hi"), Undefined))

\* a record with a block of a kind the schema does not know between a text
\* and a tool use
UnknownBlockLine ==
    J(Record("assistant", Undefined,
             JArr(<<JText("a"), JObj([type |-> JStr("thinking")]),
                    JToolUse("Bash", "ls")>>),
             Undefined))

\* a record with a wrapper that has no content, beside a direct content
NoWrappedContentLine ==
    J(Record("user", JObj([role |-> JStr("user")]), JStr("hi"), Undefined))

\* what the process that owns the files appends between discover and load
AppendedChunks == {<<UserLine, NL>>, <<NL, AssistantLine>>}

\* the owner of a file appends to it after the discovery and before the load
AppendToFile ==
    /\ discovered # Idle
    /\ loaded = Idle
    /\ \E i \in DOMAIN fs.projects :
        \E j \in DOMAIN fs.projects[i].files :
         \E chunk \in AppendedChunks :
            LET file == fs.projects[i].files[j]
            IN  /\ file.mtime # None
                /\ file.mtime.value < MaxTime
                /\ fs' = [fs EXCEPT !.projects[i].files[j] =
                            [file EXCEPT !.content = @ \o chunk,
                                         !.mtime = Some(@.value + 1)]]
    /\ UNCHANGED <<line, parsed, normalized, config, discovered, loaded,
                 request, session, formatted, gist, hook>>

\* a file becomes unreadable after the discovery and before the load
MakeUnreadable ==
    /\ discovered # Idle
    /\ loaded = Idle
    /\ \E i \in DOMAIN fs.projects :
        \E j \in DOMAIN fs.projects[i].files :
            /\ fs.projects[i].files[j].readable
            /\ fs' = [fs EXCEPT !.projects[i].files[j].readable = FALSE]
    /\ UNCHANGED <<line, parsed, normalized, config, discovered, loaded,
                 request, session, formatted, gist, hook>>

\* a file that could not be read becomes readable again, its content and
\* its modification time as they were
MakeReadable ==
    /\ discovered # Idle
    /\ loaded = Idle
    /\ \E i \in DOMAIN fs.projects :
        \E j \in DOMAIN fs.projects[i].files :
            /\ ~fs.projects[i].files[j].readable
            /\ fs' = [fs EXCEPT !.projects[i].files[j].readable = TRUE]
    /\ UNCHANGED <<line, parsed, normalized, config, discovered, loaded,
                 request, session, formatted, gist, hook>>

File(name, mtime, content) ==
    [name |-> name, stat |-> "ok", mtime |-> Some(mtime), readable |-> TRUE,
     content |-> content]

Project(name, files) == [name |-> name, listable |-> TRUE, files |-> files]

----------------------------------------------------------------------------
(* SpecLoad: one session file of any content.                              *)

FileAtoms ==
    {NL, SP, TXT, UserLine, AssistantLine, NoContentLine, BadShapeLine}

\* longer files: three lines with a bad one between, CR LF line ends, blank
\* lines, a tool use, a block of an unknown kind, a wrapper without content
LongFiles ==
    {<<UserLine, NL, TXT, NL, AssistantLine, NL>>,
     <<AssistantLine, NL, BadShapeLine, NL, NoContentLine, NL, UserLine>>,
     <<UserLine, NL, NL, AssistantLine>>,
     <<UserLine, SP, NL, AssistantLine, SP, NL, SP>>,
     <<ToolLine, NL, UserLine, NL, ToolLine, NL>>,
     <<AssistantLine, NL, UserLine, NL, AssistantLine, NL, UserLine>>,
     <<UserLine, NL, UnknownBlockLine, NL, AssistantLine>>,
     <<NoWrappedContentLine, NL, UserLine, NL>>}

FileContents == SeqsUpTo(FileAtoms, MaxContent) \cup LongFiles

\* the session file: of any content, and of the longer contents also one
\* that cannot be read for the time being
LoadFiles ==
    {File("chat_s1.jsonl", 1, c) : c \in FileContents}
    \cup {[File("chat_s1.jsonl", 1, c) EXCEPT !.readable = FALSE] :
            c \in LongFiles}

InitLoad ==
    /\ line = <<>>
    /\ parsed = Idle
    /\ normalized = Idle
    /\ \E f \in LoadFiles :
          fs = [root |-> "present", projects |-> <<Project("demo", <<f>>)>>]
    /\ config = None
    /\ discovered = Idle
    /\ loaded = Idle
    /\ request = Idle
    /\ session = Idle
    /\ formatted = Idle
    /\ gist = Idle
    /\ hook = Idle

NextLoad ==
    Discover \/ AppendToFile \/ MakeUnreadable \/ MakeReadable \/ Load

SpecLoad == InitLoad /\ [][NextLoad]_vars

----------------------------------------------------------------------------
(* SpecDiscover: a projects directory with up to MaxFiles files in two     *)
(* project directories, in every listing order, with at most one fault,    *)
(* and some with four candidate files.                                     *)

\* the most files below the projects directory, all trees up to it being
\* tried
MaxFiles == 2

ProjectNames == {"My-Foo-App", "bar-project"}

FileNames == {"chat_a.jsonl", "chat_b.jsonl", "agent-a.jsonl"}

Filters == {None, Some("fOO")}

ContentOf(name) ==
    CASE name = "chat_a.jsonl" -> <<UserLine, NL, AssistantLine, NL>>
      [] name = "chat_b.jsonl" ->
            <<SP, NL, TXT, NL, BadShapeLine, NL, NoContentLine, NL, UserLine>>
      [] OTHER -> <<UserLine>>

\* the files a directory may hold; only candidate files differ in their time
FileEntries ==
    {File(n, t, ContentOf(n)) : n \in FileNames \ {"agent-a.jsonl"},
                                t \in 1..MaxTime}
        \cup {File("agent-a.jsonl", 1, ContentOf("agent-a.jsonl"))}

\* the listings of a directory: no name twice
Listings ==
    {l \in SeqsUpTo(FileEntries, MaxFiles) :
        \A i, j \in DOMAIN l : i # j => l[i].name # l[j].name}

\* the listings of the projects directory, without fault
Trees ==
    {<<>>}
    \cup {<<Project(n, l)>> : n \in ProjectNames, l \in Listings}
    \cup {t \in {<<Project(n1, l1), Project(n2, l2)>> :
                    n1, n2 \in ProjectNames, l1, l2 \in Listings} :
            /\ t[1].name # t[2].name
            /\ Len(t[1].files) + Len(t[2].files) <= MaxFiles}

\* larger trees: two candidate files in each of two directories, in both
\* orders, with all modification times
SampleTrees ==
    {<<Project(n[1], <<File(f[1], t[1], ContentOf(f[1])),
                       File(f[2], t[2], ContentOf(f[2]))>>),
       Project(n[2], <<File(f[1], t[3], ContentOf(f[1])),
                       File(f[2], t[4], ContentOf(f[2]))>>)>> :
        n \in {p \in ProjectNames \X ProjectNames : p[1] # p[2]},
        f \in {<<"chat_a.jsonl", "chat_b.jsonl">>,
               <<"chat_b.jsonl", "chat_a.jsonl">>},
        t \in [1..4 -> 1..MaxTime]}

\* file names beside the convention: an agent transcript, a UUID name, the
\* prefix or the suffix alone, other letter case, text after the suffix;
\* and names of the convention with an empty identifier or with the prefix
\* and the suffix text inside the identifier
OddNames ==
    {"agent-a.jsonl", "e409aacf-33a8-4b59-9cee-42cd5261bff7.jsonl",
     "chat_a.json", "a.jsonl", "Chat_a.jsonl", "chat_a.jsonl.bak",
     "xchat_a.jsonl", "chat_.jsonl", "chat_a.jsonlb.jsonl",
     "chat_chat_b.jsonl"}

\* a project directory with a file of such a name and a session file
OddTrees ==
    {<<Project(n, <<File(o, 1, <<UserLine>>),
                    File("chat_a.jsonl", 2, ContentOf("chat_a.jsonl"))>>)>> :
        n \in ProjectNames, o \in OddNames}

\* a tree with one fault: a directory that cannot be listed, a file that
\* cannot be stat-ed, has no modification time or cannot be read
OneFault(tree) ==
    {[tree EXCEPT ![i].listable = FALSE] : i \in DOMAIN tree}
    \cup UNION {
        UNION {
            {[tree EXCEPT ![i].files[j].stat = "fail"],
             [tree EXCEPT ![i].files[j].mtime = None],
             [tree EXCEPT ![i].files[j].readable = FALSE]} :
            j \in DOMAIN tree[i].files} :
        i \in DOMAIN tree}

InitDiscover ==
    /\ line = <<>>
    /\ parsed = Idle
    /\ normalized = Idle
    /\ \/ \E r \in {"absent", "unlistable", "uncheckable"} :
            fs = [root |-> r, projects |-> <<>>]
       \/ \E t \in Trees \cup SampleTrees \cup OddTrees :
            fs = [root |-> "present", projects |-> t]
       \/ \E t \in Trees :
            \E f \in OneFault(t) : fs = [root |-> "present", projects |-> f]
    /\ config \in Filters
    /\ discovered = Idle
    /\ loaded = Idle
    /\ request = Idle
    /\ session = Idle
    /\ formatted = Idle
    /\ gist = Idle
    /\ hook = Idle

NextDiscover == Discover

SpecDiscover == InitDiscover /\ [][NextDiscover]_vars

----------------------------------------------------------------------------
(* SpecSelect: loadMostRecent and loadByProject over two session files, in *)
(* one project directory or in two, of all modification times, one of them *)
(* at most unreadable.                                                     *)

\* two session files in two project directories or in one, in both orders
SelectTrees ==
    {<<Project(n[1], <<File("chat_a.jsonl", t[1], ContentOf("chat_a.jsonl"))>>),
       Project(n[2], <<File("chat_b.jsonl", t[2], ContentOf("chat_b.jsonl"))>>)>> :
        n \in {p \in ProjectNames \X ProjectNames : p[1] # p[2]},
        t \in [1..2 -> 1..MaxTime]}
    \cup {<<Project(n, <<File(f[1], t[1], ContentOf(f[1])),
                         File(f[2], t[2], ContentOf(f[2]))>>)>> :
            n \in ProjectNames,
            f \in {<<"chat_a.jsonl", "chat_b.jsonl">>,
                   <<"chat_b.jsonl", "chat_a.jsonl">>},
            t \in [1..2 -> 1..MaxTime]}

\* a tree with one file that cannot be read
OneUnreadable(tree) ==
    UNION {{[tree EXCEPT ![i].files[j].readable = FALSE] :
                j \in DOMAIN tree[i].files} : i \in DOMAIN tree}

InitSelect ==
    /\ line = <<>>
    /\ parsed = Idle
    /\ normalized = Idle
    /\ \/ \E r \in {"absent", "unlistable", "uncheckable"} :
            fs = [root |-> r, projects |-> <<>>]
       \/ fs = [root |-> "present", projects |-> <<>>]
       \/ \E t \in SelectTrees : fs = [root |-> "present", projects |-> t]
       \/ \E t \in SelectTrees :
            \E f \in OneUnreadable(t) :
                fs = [root |-> "present", projects |-> f]
    /\ config \in Filters
    /\ discovered = Idle
    /\ loaded = Idle
    /\ request = Idle
    /\ session = Idle
    /\ formatted = Idle
    /\ gist = Idle
    /\ hook = Idle

NextSelect == LoadMostRecent \/ LoadByProject

SpecSelect == InitSelect /\ [][NextSelect]_vars

----------------------------------------------------------------------------
\* the --since filter of the export and gist commands, applied to the session
\* as loaded
FilterSince ==
    /\ request # Idle
    /\ session = Idle
    /\ session' = filterSessionSince(request.session,
                        parseSinceOption(request.since, request.git))
    /\ UNCHANGED <<line, parsed, normalized, fs, config, discovered, loaded,
                   request, formatted, gist, hook>>

\* formatter.format of the filtered session
Format ==
    /\ session # Idle
    /\ formatted = Idle
    /\ formatted' = format(session, request.format, request.options)
    /\ UNCHANGED <<line, parsed, normalized, fs, config, discovered, loaded,
                   request, session, gist, hook>>

----------------------------------------------------------------------------
(* SpecExport: sessions of up to MaxMessages messages, and some longer     *)
(* ones, through the --since filter and the formatter.                     *)

\* longest session, in messages, all sessions up to it being tried
MaxMessages == 2

Tool(name) == [name |-> name, input |-> JObj([command |-> JStr("ls")])]

Message(role, content, toolUses, toolResults, timestamp) ==
    [role |-> role, content |-> content, toolUses |-> toolUses,
     toolResults |-> toolResults, timestamp |-> timestamp]

UserText == Message("user", "hi", <<>>, <<>>, None)

BlankText ==
    Message("assistant", "  \n", <<>>, <<>>,
            Some(NewDate("2024-01-01T00:00:00.000Z")))

ToolsOnly ==
    Message("assistant", "", <<Tool("Bash"), Tool("Read"), Tool("Bash")>>,
            <<>>, Some(NewDate("2024-01-02T00:00:00.000Z")))

ResultsOnly ==
    Message("user", "", <<>>, <<[content |-> JStr("ok")]>>,
            Some(NewDate("2024-01-01T00:00:00.000Z")))

TextAndTools ==
    Message("assistant", "a\nb", <<Tool("Read")>>, <<>>, None)

UserTools == Message("user", "", <<Tool("Bash")>>, <<>>, None)

UndatedText ==
    Message("assistant", "<ok>", <<>>, <<>>, Some(NewDate("not-a-date")))

ExportMessages ==
    {UserText, BlankText, ToolsOnly, ResultsOnly, TextAndTools, UserTools,
     UndatedText}

LongSessions ==
    {<<UserText, BlankText, TextAndTools>>,
     <<BlankText, ToolsOnly, UserText, UndatedText>>,
     <<UserText, ToolsOnly, ResultsOnly, UserTools, TextAndTools>>}

\* the metadata of the session: a count of four lines, whatever the messages
ExportMetadata ==
    [id |-> "s1", projectPath |-> <<"demo">>, projectName |-> "demo",
     filePath |-> <<"demo", "chat_s1.jsonl">>, lastModified |-> 1,
     messageCount |-> 4, sizeBytes |-> 1000]

ExportSessions ==
    {[metadata |-> ExportMetadata, messages |-> ms] :
        ms \in SeqsUpTo(ExportMessages, MaxMessages) \cup LongSessions}

\* the --since option with the output of git: a date, no date, the last
\* commit with git failing, printing nothing, a date, or no date
SinceCases ==
    {<<since, Fail("git")>> :
        since \in {Some("2024-01-01T00:00:00.000Z"),
                   Some("2024-01-02T00:00:00.000Z"), Some("yesterday"),
                   Some("last-commit")}}
    \cup {<<Some("last-commit"), Ok(out)>> :
            out \in {" \n", "2024-01-01T00:00:00.000Z\n", "no commits"}}

\* the format with the options handed to the formatter
FormatCases ==
    {<<f, [includeToolUse |-> tools]>> :
        f \in {"markdown", "json", "html"}, tools \in BOOLEAN}
    \cup {<<"markdown", o>> :
            o \in {[includeTimestamps |-> FALSE], [includeMetadata |-> FALSE],
                   [maxContentLength |-> 1], [title |-> Some("T")]}}

InitExport ==
    /\ line = <<>>
    /\ parsed = Idle
    /\ normalized = Idle
    /\ fs = NoFs
    /\ config = None
    /\ discovered = Idle
    /\ loaded = Idle
    /\ \/ \E s \in ExportSessions : \E c \in SinceCases :
            request = [session |-> s, since |-> c[1], git |-> c[2],
                       format |-> "markdown",
                       options |-> [includeToolUse |-> TRUE]]
       \/ \E s \in ExportSessions : \E c \in FormatCases :
            request = [session |-> s, since |-> None, git |-> Fail("git"),
                       format |-> c[1], options |-> c[2]]
    /\ session = Idle
    /\ formatted = Idle
    /\ gist = Idle
    /\ hook = Idle

NextExport == FilterSince \/ Format

SpecExport == InitExport /\ [][NextExport]_vars

----------------------------------------------------------------------------
(* SpecGist: a GistService made by makeGistService, or GistServiceLive     *)
(* itself, in a world with or without gh, token and network, and one       *)
(* operation of it.                                                        *)

\* most attempts of a request that fail before one succeeds, all numbers up
\* to it being tried
MaxFailures == 4

\* the configurations handed to makeGistService; Undefined is none
GivenConfigs ==
    {Undefined,
     [token |-> Some("ghp_t"), preferCli |-> FALSE],
     [preferCli |-> FALSE],
     [token |-> None],
     [retryAttempts |-> 0],
     [token |-> Some("ghp_t"), preferCli |-> FALSE, retryAttempts |-> 1],
     [retryAttempts |-> 5]}

GistFileName == "claude-session-demo.md"

\* the answer of the API to a request that made or changed a gist
GistBody ==
    [id |-> "abc123",
     url |-> "https://api.github.com/gists/abc123",
     html_url |-> "https://gist.github.com/abc123",
     description |-> "Claude Code session: demo",
     created_at |-> "2024-01-01T00:00:00.000Z",
     files |-> [f \in {GistFileName} |->
                    [raw_url |-> "https://gist.githubusercontent.com/raw"]]]

\* the answer of the API to a request it refuses
ErrorBody == [message |-> "Bad credentials", status |-> "401"]

Created == [t |-> "response", status |-> 201, body |-> GistBody]

Refused == [t |-> "response", status |-> 401, body |-> ErrorBody]

NetworkError == [t |-> "neterr"]

NoJson == [t |-> "badjson"]

\* the attempts of a request: k failures, then an answer; or failures only
HttpCases ==
    {[i \in 1..(k + 1) |-> IF i <= k THEN NetworkError ELSE Created] :
        k \in 0..MaxFailures}
    \cup {<<NetworkError>>, <<NoJson>>, <<Refused>>,
          <<NoJson, NetworkError, Refused>>}

\* what gh gist create prints: the URL alone, after a progress line, below a
\* user name, nothing of a URL, or the command fails
GhOutputs ==
    {Ok("https://gist.github.com/abc123\n"),
     Ok("- Creating gist\nhttps://gist.github.com/octo/abc123\n"),
     Ok("- Creating gist\n"),
     Ok(""),
     Fail("exit")}

\* the worlds: gh present or not, its authentication, its output, the
\* token of the environment, the network
Worlds ==
    {[envToken |-> tok, executor |-> ex[1], ghAuth |-> ex[2],
      ghOutput |-> out, client |-> TRUE, http |-> h] :
        tok \in {None, Some("ghp_env")},
        ex \in {<<FALSE, "fail">>, <<TRUE, "fail">>, <<TRUE, "exit1">>},
        out \in {Fail("exit")},
        h \in HttpCases}
    \cup
    {[envToken |-> tok, executor |-> TRUE, ghAuth |-> "exit0",
      ghOutput |-> out, client |-> TRUE, http |-> <<Created>>] :
        tok \in {None, Some("ghp_env")}, out \in GhOutputs}
    \cup
    {[envToken |-> Some("ghp_env"), executor |-> FALSE, ghAuth |-> "fail",
      ghOutput |-> Fail("exit"), client |-> FALSE, http |-> <<Created>>]}

\* the options of create and update: one file as the commands make it, or
\* none
GistOptions ==
    {[gistId |-> "abc123", description |-> "Claude Code session: demo",
      files |-> fl, public |-> FALSE] :
        fl \in {<<>>, <<[filename |-> GistFileName, content |-> "# demo"]>>}}

InitGist ==
    /\ line = <<>>
    /\ parsed = Idle
    /\ normalized = Idle
    /\ fs = NoFs
    /\ config = None
    /\ discovered = Idle
    /\ loaded = Idle
    /\ request = Idle
    /\ session = Idle
    /\ formatted = Idle
    /\ \E given \in GivenConfigs : \E world \in Worlds :
        \E options \in GistOptions :
            gist = [given |-> given, world |-> world, options |-> options,
                    config |-> makeGistService(given, world.envToken),
                    run |-> Idle]
    /\ hook = Idle

NextGist == Create \/ Update \/ GetAuthMethod

SpecGist == InitGist /\ [][NextGist]_vars

----------------------------------------------------------------------------
(* SpecHook: the hook command over one session file, in each format, in    *)
(* the worlds of SpecGist.                                                 *)

TimedLine ==
    J(Record("user", Undefined, JStr("hi"),
             JStr("2024-01-01T00:00:00.000Z")))

\* a message whose timestamp is no date
BadTimeLine ==
    J(Record("assistant", Undefined, JStr("hello"), JStr("not-a-date")))

\* the session file of the hook: messages without timestamp, with
\* timestamps, one with a timestamp that is no date, no message, tools only
HookContents ==
    {<<UserLine, NL, AssistantLine, NL>>,
     <<TimedLine, NL, AssistantLine, NL>>,
     <<TimedLine, NL, BadTimeLine, NL>>,
     <<TXT, NL>>,
     <<ToolLine, NL>>}

HookTrees ==
    {[root |-> r, projects |-> <<>>] : r \in {"absent", "unlistable",
                                              "present"}}
    \cup {[root |-> "present",
           projects |-> <<Project("My-Foo-App",
                            <<File("chat_s1.jsonl", 1, c)>>)>>] :
            c \in HookContents}
    \cup {[root |-> "present",
           projects |-> <<Project("My-Foo-App",
                <<[File("chat_s1.jsonl", 1, <<UserLine>>)
                        EXCEPT !.readable = FALSE]>>)>>]}

InitHook ==
    /\ line = <<>>
    /\ parsed = Idle
    /\ normalized = Idle
    /\ fs \in HookTrees
    /\ config = None
    /\ discovered = Idle
    /\ loaded = Idle
    /\ \E f \in {"markdown", "json", "html"} :
            request = [format |-> f, public |-> FALSE]
    /\ session = Idle
    /\ formatted = Idle
    /\ \E world \in Worlds :
            gist = [given |-> Undefined, world |-> world,
                    options |-> Undefined,
                    config |-> GistServiceLive(world.envToken),
                    run |-> Idle]
    /\ hook = Idle

NextHook == Hook

SpecHook == InitHook /\ [][NextHook]_vars

----------------------------------------------------------------------------
(* Properties of the Session Loader, checked under SpecLoad: the load ends *)
(* the run, so fs is the file system the load saw.                         *)

\* C1: load fails if and only if the read of metadata.filePath fails, and
\* then with IoError; no content of the file makes it fail.
C1_LoadFailsOnlyOnRead ==
    loaded # Idle =>
        LET read == ReadFileString(fs, loaded.metadata.filePath)
        IN  /\ loaded.result.t = "fail" <=> read.t = "fail"
            /\ loaded.result.t = "fail" => loaded.result = Fail("IoError")
            /\ loaded.result.t = "ok" =>
                    loaded.result.value.metadata = loaded.metadata

\* a file without one good line (text that is no JSON, a value of the
\* wrong shape, a record without content, blank lines) has been loaded
C1_Witness ==
    /\ loaded # Idle
    /\ loaded.result.t = "ok"
    /\ loaded.result.value.messages = <<>>
    /\ LET c == ReadFileString(fs, loaded.metadata.filePath).value
       IN  \E i \in DOMAIN c : c[i] \in {TXT, BadShapeLine, NoContentLine}

\* the lines of a content: the atoms between one line break and the next
LinesBetweenBreaks(content) ==
    LET breaks == {i \in DOMAIN content : content[i] = NL}
        first(k) == IF k = 1 THEN 1
                    ELSE 1 + CHOOSE b \in breaks :
                                Cardinality({x \in breaks : x < b}) = k - 2
        last(k) == IF k = Cardinality(breaks) + 1 THEN Len(content)
                   ELSE (CHOOSE b \in breaks :
                            Cardinality({x \in breaks : x < b}) = k - 1) - 1
    IN  [k \in 1..(Cardinality(breaks) + 1) |->
            SubSeq(content, first(k), last(k))]

\* the message of a line, or None when the Record Parser rejects the line
\* or the Normalizer gives nothing
MessageOfLine(l) ==
    IF parseJsonlLine(l).t = "ok"
    THEN normalizeMessage(parseJsonlLine(l).value)
    ELSE None

\* C2: the messages are those of the non-blank lines of the file that the
\* Record Parser accepts and that normalize to a message, in file order,
\* none lost and none twice.
C2_MessagesInLineOrder ==
    (loaded # Idle /\ loaded.result.t = "ok") =>
        LET content == ReadFileString(fs, loaded.metadata.filePath).value
            lines == LinesBetweenBreaks(content)
            kept == {k \in DOMAIN lines :
                        /\ \E i \in DOMAIN lines[k] : lines[k][i] # SP
                        /\ MessageOfLine(lines[k]) # None}
            messages == loaded.result.value.messages
        IN  /\ Len(messages) = Cardinality(kept)
            /\ \A j \in DOMAIN messages :
                 LET k == CHOOSE x \in kept :
                            Cardinality({y \in kept : y < x}) = j - 1
                 IN  messages[j] = MessageOfLine(lines[k]).value

\* three lines with a bad one between: the first and the third are the
\* messages, in this order
C2_Witness ==
    /\ loaded # Idle
    /\ loaded.result.t = "ok"
    /\ Len(loaded.result.value.messages) = 2
    /\ loaded.result.value.messages[1].role = "user"
    /\ loaded.result.value.messages[2].role = "assistant"
    /\ Len(NonBlankLines(
            ReadFileString(fs, loaded.metadata.filePath).value)) = 3

----------------------------------------------------------------------------
(* Properties of Session Discovery, checked under SpecDiscover, where the  *)
(* file system does not change.                                            *)

\* C9: without the projects directory discover succeeds with no session
\* and lists no directory, stats no file and reads no file.
C9_MissingRootIsEmpty ==
    (discovered # Idle /\ fs.root = "absent") =>
        /\ discovered.result = Ok(<<>>)
        /\ \A i \in DOMAIN discovered.ops :
                discovered.ops[i].op
                    \notin {"readDirectory", "stat", "readFileString"}

\* discover has run without the projects directory
C9_Witness ==
    /\ discovered # Idle
    /\ fs.root = "absent"
    /\ discovered.result = Ok(<<>>)

\* the place of a session's file in the listings: directory, then file
ListingPlace(m) ==
    LET i == CHOOSE x \in DOMAIN fs.projects :
                fs.projects[x].name = m.filePath[1]
        j == CHOOSE y \in DOMAIN fs.projects[i].files :
                fs.projects[i].files[y].name = m.filePath[2]
    IN  <<i, j>>

ListedBefore(a, b) ==
    \/ ListingPlace(a)[1] < ListingPlace(b)[1]
    \/ /\ ListingPlace(a)[1] = ListingPlace(b)[1]
       /\ ListingPlace(a)[2] < ListingPlace(b)[2]

\* C10: the sessions are sorted by lastModified, latest first, whatever the
\* listing order; sessions of equal time keep their listing order.
C10_SortedByLastModified ==
    (discovered # Idle /\ discovered.result.t = "ok") =>
        LET sessions == discovered.result.value
        IN  \A i, j \in DOMAIN sessions :
                i < j =>
                    /\ sessions[i].lastModified >= sessions[j].lastModified
                    /\ sessions[i].lastModified = sessions[j].lastModified
                           => ListedBefore(sessions[i], sessions[j])

\* three sessions listed oldest first and a tie: the result is latest first
C10_Witness ==
    /\ discovered # Idle
    /\ discovered.result.t = "ok"
    /\ Len(discovered.result.value) >= 3
    /\ LET sessions == discovered.result.value
       IN  /\ ListedBefore(sessions[2], sessions[1])
           /\ sessions[1].lastModified > sessions[2].lastModified
           /\ sessions[2].lastModified = sessions[3].lastModified

\* two characters that are the same letter in either case, or equal
SameLetter(a, b) ==
    \/ a = b
    \/ \E i \in 1..Len(UpperCase) :
          {a, b} = {SubSeq(UpperCase, i, i), SubSeq(LowerCase, i, i)}

\* p occurs in s, the case of the letters aside
ContainsIgnoringCase(s, p) ==
    \E i \in 0..(Len(s) - Len(p)) :
        \A k \in 1..Len(p) :
            SameLetter(SubSeq(s, i + k, i + k), SubSeq(p, k, k))

\* the name of a candidate session file
IsCandidateName(name) == StartsWith(name, "chat_") /\ EndsWith(name, ".jsonl")

\* C11: with a project filter every session's projectName contains the
\* filter, the case of the letters aside; every candidate file of a
\* matching directory that can be listed, with a stat and a modification
\* time, is a session; no call is made below a directory that does not
\* match.
C11_FilterByProjectName ==
    (discovered # Idle /\ config # None) =>
        /\ discovered.result.t = "ok" =>
            LET sessions == discovered.result.value
            IN  /\ \A i \in DOMAIN sessions :
                    ContainsIgnoringCase(sessions[i].projectName,
                                         config.value)
                /\ \A p \in DOMAIN fs.projects :
                    \A f \in DOMAIN fs.projects[p].files :
                      LET dir == fs.projects[p]
                          file == dir.files[f]
                      IN  (/\ ContainsIgnoringCase(dir.name, config.value)
                           /\ dir.listable
                           /\ IsCandidateName(file.name)
                           /\ file.stat = "ok"
                           /\ file.mtime # None)
                          => \E i \in DOMAIN sessions :
                                sessions[i].filePath = <<dir.name, file.name>>
        /\ \A k \in DOMAIN discovered.ops :
              discovered.ops[k].path # <<>> =>
                ContainsIgnoringCase(discovered.ops[k].path[1], config.value)

\* a filter in another case than the directory's name: the sessions of the
\* matching directory are found beside a directory that does not match
C11_Witness ==
    /\ discovered # Idle
    /\ config = Some("fOO")
    /\ discovered.result.t = "ok"
    /\ Len(discovered.result.value) >= 1
    /\ discovered.result.value[1].projectName = "My-Foo-App"
    /\ \E p \in DOMAIN fs.projects :
          /\ fs.projects[p].name = "bar-project"
          /\ \E f \in DOMAIN fs.projects[p].files :
                IsCandidateName(fs.projects[p].files[f].name)

\* the files discover looks at: the candidate files of the directories that
\* match the filter and can be listed, as <<directory, file>> places
Candidates ==
    {pf \in UNION {{<<p, f>> : f \in DOMAIN fs.projects[p].files} :
                        p \in DOMAIN fs.projects} :
        /\ config # None =>
                ContainsIgnoringCase(fs.projects[pf[1]].name, config.value)
        /\ fs.projects[pf[1]].listable
        /\ IsCandidateName(fs.projects[pf[1]].files[pf[2]].name)}

\* the session of the file at a place is in the result of discover
IsDiscovered(pf) ==
    \E i \in DOMAIN discovered.result.value :
        discovered.result.value[i].filePath =
            <<fs.projects[pf[1]].name, fs.projects[pf[1]].files[pf[2]].name>>

\* C12: a candidate file whose stat fails or whose read fails is not in the
\* result of discover, and the candidates without fault still are.
C12_FileErrorSkipsFile ==
    (discovered # Idle /\ discovered.result.t = "ok") =>
        \A pf \in Candidates :
            LET file == fs.projects[pf[1]].files[pf[2]]
            IN  /\ (file.stat # "ok" \/ ~file.readable) => ~IsDiscovered(pf)
                /\ (file.stat = "ok" /\ file.mtime # None /\ file.readable)
                        => IsDiscovered(pf)

\* C13: discover fails exactly when the existence check or the listing of
\* the projects directory fails, and then with IoError; no fault of a
\* project directory or of a file makes it fail.
C13_DiscoverFailsOnlyOnRoot ==
    discovered # Idle =>
        /\ discovered.result.t = "fail"
                <=> fs.root \in {"uncheckable", "unlistable"}
        /\ discovered.result.t = "fail" => discovered.result = Fail("IoError")

\* discover has succeeded over a project directory that cannot be listed or
\* a candidate file that cannot be stat-ed or read
C13_Witness ==
    /\ discovered # Idle
    /\ discovered.result.t = "ok"
    /\ \E p \in DOMAIN fs.projects :
          /\ config # None =>
                ContainsIgnoringCase(fs.projects[p].name, config.value)
          /\ \/ ~fs.projects[p].listable
             \/ \E f \in DOMAIN fs.projects[p].files :
                  /\ IsCandidateName(fs.projects[p].files[f].name)
                  /\ \/ fs.projects[p].files[f].stat # "ok"
                     \/ ~fs.projects[p].files[f].readable

\* the file of a session
FileOf(m) ==
    LET p == CHOOSE x \in DOMAIN fs.projects :
                fs.projects[x].name = m.filePath[1]
        f == CHOOSE y \in DOMAIN fs.projects[p].files :
                fs.projects[p].files[y].name = m.filePath[2]
    IN  fs.projects[p].files[f]

\* the lines of a content that are not white space only
CountedLines(content) ==
    LET lines == LinesBetweenBreaks(content)
    IN  {k \in DOMAIN lines : \E i \in DOMAIN lines[k] : lines[k][i] # SP}

\* C14: messageCount is the number of lines, of the content the discovery
\* read (nothing, when the read failed), that are not white space only:
\* lines that are no JSON, of the wrong shape or without content count.
C14_MessageCountIsLineCount ==
    (discovered # Idle /\ discovered.result.t = "ok") =>
        \A i \in DOMAIN discovered.result.value :
            LET m == discovered.result.value[i]
                read == IF FileOf(m).readable THEN FileOf(m).content ELSE <<>>
            IN  m.messageCount = Cardinality(CountedLines(read))

\* a session of four counted lines (no JSON, wrong shape, no content, one
\* message) beside a line of white space: load would return one message
C14_Witness ==
    /\ discovered # Idle
    /\ discovered.result.t = "ok"
    /\ \E i \in DOMAIN discovered.result.value :
          LET m == discovered.result.value[i]
          IN  /\ m.messageCount = 4
              /\ Len(Split(FileOf(m).content)) = 5
              /\ loadSession(fs, m).result.t = "ok"
              /\ Len(loadSession(fs, m).result.value.messages) = 1

----------------------------------------------------------------------------
(* Properties of loadMostRecent and loadByProject, checked under           *)
(* SpecSelect, where the file system does not change.                      *)

\* the calls of an operation after those of its discovery
CallsAfterDiscovery ==
    SubSeq(loaded.ops, Len(discoverSessions(fs, config).ops) + 1,
           Len(loaded.ops))

\* the outcome is that of the load of m alone: the session of m, or IoError
\* when the file of m cannot be read, the file of m being the one file read
LoadsOnly(m) ==
    /\ CallsAfterDiscovery = <<Call("readFileString", m.filePath)>>
    /\ IF FileOf(m).readable
       THEN /\ loaded.result.t = "ok"
            /\ loaded.result.value.metadata = m
            /\ loaded.result.value.messages
                    = LoadLines(NonBlankLines(FileOf(m).content), <<>>)
       ELSE loaded.result = Fail("IoError")

\* C15: loadMostRecent fails with NotFound exactly when discover succeeds
\* with no session; otherwise it loads the first session of discover and
\* reads no other file, failing with IoError when that file cannot be read.
C15_LoadMostRecentIsHead ==
    (loaded # Idle /\ loaded.op = "loadMostRecent") =>
        LET d == discoverSessions(fs, config).result
        IN  /\ loaded.result = Fail("NotFound") <=> d = Ok(<<>>)
            /\ d.t = "fail" => loaded.result = d
            /\ (d.t = "ok" /\ d.value # <<>>) => LoadsOnly(d.value[1])

\* the most recent session cannot be read and an older one can:
\* loadMostRecent has failed with IoError
C15_Witness ==
    /\ loaded # Idle
    /\ loaded.op = "loadMostRecent"
    /\ loaded.result = Fail("IoError")
    /\ LET d == discoverSessions(fs, config).result
       IN  /\ d.t = "ok"
           /\ Len(d.value) = 2
           /\ d.value[1].lastModified > d.value[2].lastModified
           /\ ~FileOf(d.value[1]).readable
           /\ FileOf(d.value[2]).readable

\* C16: loadByProject(name) loads the first session of discover whose
\* projectName contains name, the case of the letters aside, which is the
\* most recently modified of them; it fails with NotFound exactly when
\* discover succeeds and no session matches.
C16_LoadByProjectIsFirstMatch ==
    (loaded # Idle /\ loaded.op = "loadByProject") =>
        LET d == discoverSessions(fs, config).result
            matching == IF d.t = "fail" THEN {}
                        ELSE {i \in DOMAIN d.value :
                                ContainsIgnoringCase(d.value[i].projectName,
                                                     loaded.name)}
        IN  /\ loaded.result = Fail("NotFound")
                    <=> (d.t = "ok" /\ matching = {})
            /\ d.t = "fail" => loaded.result = d
            /\ matching # {} =>
                    LET first == CHOOSE i \in matching :
                                    \A j \in matching : i <= j
                    IN  /\ LoadsOnly(d.value[first])
                        /\ \A j \in matching :
                              d.value[first].lastModified
                                    >= d.value[j].lastModified

\* the session loaded is of the directory listed second, which matches in
\* another case, and is not the first session of discover
C16_Witness ==
    /\ loaded # Idle
    /\ loaded.op = "loadByProject"
    /\ loaded.name = "BAR"
    /\ loaded.result.t = "ok"
    /\ loaded.result.value.metadata.projectName = "bar-project"
    /\ LET d == discoverSessions(fs, config).result
       IN  /\ Len(d.value) = 2
           /\ d.value[1].projectName = "My-Foo-App"
           /\ loaded.result.value.metadata = d.value[2]
    /\ fs.projects[2].name = "bar-project"

\* the name begins with the session prefix and ends with the session suffix
HasPrefixAndSuffix(name) ==
    /\ Len(name) >= 5 /\ SubSeq(name, 1, 5) = "chat_"
    /\ Len(name) >= 6 /\ SubSeq(name, Len(name) - 5, Len(name)) = ".jsonl"

\* C18: every session of discover is of a file whose name has the session
\* prefix and the session suffix, and no other file is stat-ed or read:
\* agent transcripts and files of other names stay untouched.
C18_OnlyCandidateNames ==
    discovered # Idle =>
        /\ discovered.result.t = "ok" =>
              \A i \in DOMAIN discovered.result.value :
                  HasPrefixAndSuffix(discovered.result.value[i].filePath[2])
        /\ \A k \in DOMAIN discovered.ops :
              discovered.ops[k].op \in {"stat", "readFileString"} =>
                  HasPrefixAndSuffix(discovered.ops[k].path[2])

\* a directory with an agent transcript and a session file: the session
\* file alone is discovered
C18_Witness ==
    /\ discovered # Idle
    /\ discovered.result.t = "ok"
    /\ Len(discovered.result.value) = 1
    /\ discovered.result.value[1].filePath[2] = "chat_a.jsonl"
    /\ \E p \in DOMAIN fs.projects :
          /\ fs.projects[p].name = discovered.result.value[1].projectName
          /\ \E f \in DOMAIN fs.projects[p].files :
                /\ fs.projects[p].files[f].name = "agent-a.jsonl"
                /\ fs.projects[p].files[f].stat = "ok"

\* a name of the UUID form with the .jsonl suffix
IsUuidName(name) ==
    /\ Len(name) = 42
    /\ SubSeq(name, 37, 42) = ".jsonl"
    /\ \A i \in {9, 14, 19, 24} : SubSeq(name, i, i) = "-"
    /\ \A i \in (1..36) \ {9, 14, 19, 24} :
          \E k \in 1..16 : SubSeq(name, i, i) = SubSeq("0123456789abcdef", k, k)

\* C19: every UUID-named .jsonl file with a stat, in a project directory
\* that matches the filter and can be listed, has a session in the result
\* of discover.
C19_UuidFilesDiscovered ==
    (discovered # Idle /\ discovered.result.t = "ok") =>
        \A p \in DOMAIN fs.projects :
            \A f \in DOMAIN fs.projects[p].files :
                LET dir == fs.projects[p]
                    file == dir.files[f]
                IN  (/\ config # None =>
                            ContainsIgnoringCase(dir.name, config.value)
                     /\ dir.listable
                     /\ IsUuidName(file.name)
                     /\ file.stat = "ok"
                     /\ file.mtime # None)
                    => IsDiscovered(<<p, f>>)

----------------------------------------------------------------------------
(* Properties of the --since filter and of the formatter, checked under    *)
(* SpecExport.                                                             *)

\* the k-th smallest element of a set of numbers
Nth(S, k) == CHOOSE x \in S : Cardinality({y \in S : y < x}) = k - 1

\* the cutoff of the request, or None
Cutoff == parseSinceOption(request.since, request.git)

\* the places of the messages that the cutoff keeps: those without a
\* timestamp and those of a time after the cutoff
KeptPlaces ==
    {i \in DOMAIN request.session.messages :
        LET ts == request.session.messages[i].timestamp
        IN  \/ ts = None
            \/ ts.value.valid /\ ts.value.time > Cutoff.value.time}

\* C17: the --since filter keeps the messages without timestamp and those
\* of a time strictly after the cutoff, in their order, removes the others
\* and leaves the metadata alone; without a cutoff the session is
\* unchanged.
C17_SinceKeepsLaterOrUndated ==
    session # Idle =>
        IF Cutoff = None THEN session = request.session
        ELSE /\ session.metadata = request.session.metadata
             /\ Len(session.messages) = Cardinality(KeptPlaces)
             /\ \A j \in DOMAIN session.messages :
                    session.messages[j]
                        = request.session.messages[Nth(KeptPlaces, j)]

\* a session with a message of the cutoff's time, a later one, one without
\* timestamp and one of an unparseable timestamp has been filtered: the
\* later one and the one without timestamp are left, in their order
C17_Witness ==
    /\ session # Idle
    /\ Cutoff = Some(NewDate("2024-01-01T00:00:00.000Z"))
    /\ request.session.messages
            = <<BlankText, ToolsOnly, UserText, UndatedText>>
    /\ session.messages = <<ToolsOnly, UserText>>

\* the options the formatter works with
Options == MergeOptions(request.options)

\* the places of the messages to display: text that is not white space
\* only, or an assistant's tool uses with includeToolUse on
ShownPlaces ==
    {i \in DOMAIN session.messages :
        LET msg == session.messages[i]
        IN  \/ \E k \in 1..Len(msg.content) :
                    SubSeq(msg.content, k, k) \notin WhiteSpace
            \/ /\ msg.role = "assistant"
               /\ Options.includeToolUse
               /\ msg.toolUses # <<>>}

\* the role and the text a section of an output shows
SectionRole(section) ==
    CASE request.format = "json" -> section.role
      [] request.format = "html" -> section.roleClass
      [] OTHER -> IF section.roleName = "User" THEN "user" ELSE "assistant"

\* the section shows the text of the message, when the message has text
ShowsText(section, msg) ==
    LET text == truncateContent(msg.content, Options.maxContentLength)
    IN  CASE request.format = "json" -> section.content = text
          [] request.format = "html" ->
                section.contentHtml = BreakLines(escapeHtml(text))
          [] OTHER -> HasTextContent(msg) => section.body = text

\* C20: the sections of an output are those of the messages to display, in
\* their order, numbered from one; no other message has a section.  The
\* formatter gives no output only when a date it prints is the Invalid
\* Date.
C20_DisplaysTextOrAssistantTools ==
    formatted # Idle =>
        /\ formatted.t = "ok" =>
            /\ Len(formatted.value.sections) = Cardinality(ShownPlaces)
            /\ \A j \in DOMAIN formatted.value.sections :
                LET section == formatted.value.sections[j]
                    msg == session.messages[Nth(ShownPlaces, j)]
                IN  /\ SectionRole(section) = msg.role
                    /\ ShowsText(section, msg)
                    /\ request.format # "json" => section.number = j
        /\ formatted.t # "ok" =>
            /\ formatted = Die("RangeError")
            /\ \E i \in ShownPlaces :
                  /\ session.messages[i].timestamp # None
                  /\ ~session.messages[i].timestamp.value.valid

\* five messages formatted with the tools off: the user's text and the
\* assistant's text are shown; the assistant's tool uses, the user's tool
\* results and the user's tool uses are not
C20_Witness ==
    /\ formatted # Idle
    /\ formatted.t = "ok"
    /\ request.format = "markdown"
    /\ ~Options.includeToolUse
    /\ session.messages
            = <<UserText, ToolsOnly, ResultsOnly, UserTools, TextAndTools>>
    /\ Len(formatted.value.sections) = 2
    /\ formatted.value.sections[1].body = "hi"
    /\ formatted.value.sections[2].body = "a\nb"
    /\ formatted.value.sections[2].number = 2

C24_IdIsNameWithoutPrefixAndSuffix ==
    (discovered # Idle /\ discovered.result.t = "ok") =>
        \A i \in DOMAIN discovered.result.value :
            LET m == discovered.result.value[i]
            IN  "chat_" \o m.id \o ".jsonl" = m.filePath[2]

----------------------------------------------------------------------------
(* Further properties of the load, checked under SpecLoad.                 *)

\* C25: a load whose read succeeds returns the metadata it was given,
\* unchanged, with the messages of the content the file has at the load;
\* the load reads the file and does nothing else, so a file that has grown
\* since the discovery is loaded with the counts and the time of the
\* discovery.
C25_LoadKeepsGivenMetadata ==
    (loaded # Idle
        /\ ReadFileString(fs, loaded.metadata.filePath).t = "ok") =>
        LET content == ReadFileString(fs, loaded.metadata.filePath).value
        IN  /\ loaded.result.t = "ok"
            /\ loaded.result.value.metadata = loaded.metadata
            /\ loaded.result.value.messages
                    = LoadLines(NonBlankLines(content), <<>>)
            /\ loaded.ops = <<Call("readFileString",
                                   loaded.metadata.filePath)>>
            /\ \E i \in DOMAIN discovered.result.value :
                    discovered.result.value[i] = loaded.metadata

\* a file that was appended to after the discovery has been loaded: the
\* session has the new message, and the count, the size and the time of its
\* metadata are those of the discovery
C25_Witness ==
    /\ loaded # Idle
    /\ loaded.result.t = "ok"
    /\ LET file == FileOf(loaded.metadata)
           m == loaded.result.value.metadata
       IN  /\ m = discovered.result.value[1]
           /\ m.lastModified < file.mtime.value
           /\ m.sizeBytes < Len(file.content)
           /\ m.messageCount < Len(NonBlankLines(file.content))
           /\ m.messageCount < Len(loaded.result.value.messages)

\* a block that is not of one of the three kinds
UnknownKind(b) ==
    ~(b.t = "obj" /\ Has(b, "type")
        /\ b.f["type"] \in {JStr("text"), JStr("tool_use"),
                            JStr("tool_result")})

HasUnknownBlock(c) ==
    c.t = "arr" /\ \E i \in DOMAIN c.items : UnknownKind(c.items[i])

\* the line is a record with a block of an unknown kind in its direct or
\* wrapped content, or with a wrapper without content
IsRejectedLine(l) ==
    /\ Len(Trim(l)) = 1
    /\ Trim(l)[1].t = "json"
    /\ LET v == Trim(l)[1].v
       IN  /\ v.t = "obj"
           /\ \/ Has(v, "content") /\ HasUnknownBlock(v.f["content"])
              \/ /\ Has(v, "message")
                 /\ v.f["message"].t = "obj"
                 /\ \/ ~Has(v.f["message"], "content")
                    \/ HasUnknownBlock(v.f["message"].f["content"])

\* C28: a line with a block of an unknown kind, or with a wrapper without
\* content, is rejected as InvalidFormat, and the load gives the messages
\* of the other lines only: nothing of the rejected line is kept.
C28_UnknownBlockDropsLine ==
    (loaded # Idle /\ loaded.result.t = "ok") =>
        LET lines == NonBlankLines(
                        ReadFileString(fs, loaded.metadata.filePath).value)
            others == SelectSeq(lines, LAMBDA l : ~IsRejectedLine(l))
        IN  /\ \A k \in DOMAIN lines :
                    IsRejectedLine(lines[k]) =>
                        parseJsonlLine(lines[k]) = Fail("InvalidFormat")
            /\ loaded.result.value.messages = LoadLines(others, <<>>)

\* a file of three lines has been loaded, the second with a text, a block
\* of an unknown kind and a tool use: the messages are those of the first
\* and the third line
C28_Witness ==
    /\ loaded # Idle
    /\ loaded.result.t = "ok"
    /\ LET lines == NonBlankLines(
                        ReadFileString(fs, loaded.metadata.filePath).value)
       IN  /\ Len(lines) = 3
           /\ lines[2] = <<UnknownBlockLine>>
    /\ Len(loaded.result.value.messages) = 2
    /\ loaded.result.value.messages[1].content = "hi"
    /\ loaded.result.value.messages[2].content = "hello"

\* C30: a load of a file that has the size and the modification time of
\* the discovery gives at most messageCount messages, and exactly
\* messageCount when every non-blank line of the file is a record with
\* content.
C30_MessagesAtMostMessageCount ==
    (loaded # Idle /\ loaded.result.t = "ok") =>
        LET m == loaded.metadata
            file == FileOf(m)
            lines == NonBlankLines(file.content)
            messages == loaded.result.value.messages
        IN  (file.mtime = Some(m.lastModified)
                /\ Len(file.content) = m.sizeBytes) =>
                /\ Len(messages) <= m.messageCount
                /\ Len(messages) = m.messageCount
                    <=> \A k \in DOMAIN lines : MessageOfLine(lines[k]) # None

----------------------------------------------------------------------------
(* Properties of the GistService, checked under SpecGist.                  *)

\* the calls of a run made through the gh CLI to make or change a gist,
\* and those made to the HTTP API
GistCommands(run) ==
    {i \in DOMAIN run.calls :
        run.calls[i].via = "gh" /\ run.calls[i].args[1] = "gist"}

HttpRequests(run) == {i \in DOMAIN run.calls : run.calls[i].via = "http"}

\* the gh CLI is preferred by the configuration of the service and its
\* authentication check succeeds
CliChosen ==
    /\ gist.config.preferCli
    /\ gist.world.executor
    /\ gist.world.ghAuth = "exit0"

\* C22: the transport is the gh CLI when the configuration of the service
\* prefers it and gh auth status succeeds, and then no HTTP request is
\* made; otherwise the HTTP API with the token when there is one, and then
\* no gist command of gh is run; otherwise the operation fails with
\* AuthError and neither is contacted.  getAuthMethod answers cli, token or
\* none in the same order.  gh is not run at all unless it is preferred.
C22_TransportOrder ==
    (gist # Idle /\ gist.run # Idle) =>
        LET run == gist.run
            token == gist.config.token
            files == gist.options.files
        IN  /\ ~gist.config.preferCli =>
                    \A i \in DOMAIN run.calls : run.calls[i].via # "gh"
            /\ CliChosen =>
                /\ HttpRequests(run) = {}
                /\ run.op = "getAuthMethod" => run.result = Ok("cli")
                /\ (run.op # "getAuthMethod" /\ files # <<>>) =>
                        Cardinality(GistCommands(run)) = 1
            /\ (~CliChosen /\ token # None) =>
                /\ GistCommands(run) = {}
                /\ run.op = "getAuthMethod" => run.result = Ok("token")
                /\ (run.op # "getAuthMethod" /\ gist.world.client) =>
                        HttpRequests(run) # {}
                /\ \A i \in HttpRequests(run) :
                        run.calls[i].token = token.value
            /\ (~CliChosen /\ token = None) =>
                /\ GistCommands(run) = {}
                /\ HttpRequests(run) = {}
                /\ run.op = "getAuthMethod" => run.result = Ok("none")
                /\ run.op # "getAuthMethod" => run.result = Fail("AuthError")

\* a gist has been created where gh is authenticated and there is a token
\* too: by gh gist create after gh auth status, without a request to the API
C22_Witness ==
    /\ gist # Idle
    /\ gist.run # Idle
    /\ gist.run.op = "create"
    /\ gist.config.token # None
    /\ gist.world.client
    /\ gist.run.calls = <<Gh(<<"auth", "status">>), Gh(<<"gist", "create">>)>>
    /\ gist.run.result.t = "ok"

\* C23: a service made by makeGistService with a token and preferCli false
\* never runs gh and sends its requests with the token given, not with the
\* token of the environment.
C23_MadeServiceFollowsGivenConfig ==
    (gist # Idle /\ gist.run # Idle /\ gist.given # Undefined) =>
        LET given == gist.given
            run == gist.run
        IN  ("token" \in DOMAIN given /\ given.token # None
                /\ "preferCli" \in DOMAIN given /\ ~given.preferCli) =>
                /\ \A i \in DOMAIN run.calls : run.calls[i].via # "gh"
                /\ \A i \in HttpRequests(run) :
                        run.calls[i].token = given.token.value
                /\ run.op = "getAuthMethod" => run.result = Ok("token")
                /\ (run.op # "getAuthMethod" /\ gist.world.client) =>
                        HttpRequests(run) # {}

\* the retryAttempts of the configuration the service was made with
ConfiguredRetryAttempts ==
    IF gist.given = Undefined
    THEN GistConfigDefault(gist.world.envToken).retryAttempts
    ELSE GistConfigMake(gist.given, gist.world.envToken).retryAttempts

\* C27: create and update send at most 1 + retryAttempts requests to the
\* API, retryAttempts being the configured value, and fail with ApiError
\* when all of them fail.
C27_AttemptsFollowRetryAttempts ==
    (gist # Idle /\ gist.run # Idle /\ gist.run.op # "getAuthMethod") =>
        /\ Cardinality(HttpRequests(gist.run)) <= 1 + ConfiguredRetryAttempts
        /\ (/\ HttpRequests(gist.run) # {}
            /\ \A n \in 1..(1 + ConfiguredRetryAttempts) :
                    ~AttemptOk(gist.world, n)) =>
                gist.run.result = Fail("ApiError")

\* C29: a create that succeeds returns the id and the URL of a gist: both
\* are strings that are not empty.
C29_CreatedGistIsIdentified ==
    (gist # Idle /\ gist.run # Idle /\ gist.run.op = "create"
        /\ gist.run.result.t = "ok") =>
        /\ gist.run.result.value.id \notin {JStr(""), Undefined}
        /\ gist.run.result.value.htmlUrl \notin {JStr(""), Undefined}

----------------------------------------------------------------------------
(* Properties of the hook command, checked under SpecHook.                 *)

\* C26: the hook command ends without failing and has printed one JSON
\* object: success with the gist and the session when a gist was created,
\* success false with an error otherwise.
C26_HookAlwaysPrintsJson ==
    hook # Idle =>
        /\ hook.exit = "ok"
        /\ Len(hook.stdout) = 1
        /\ \/ /\ hook.stdout[1].success
              /\ DOMAIN hook.stdout[1]
                    = {"success", "gistUrl", "gistId", "project",
                       "messageCount"}
           \/ /\ ~hook.stdout[1].success
              /\ DOMAIN hook.stdout[1] = {"success", "error"}

====
